---- MODULE Spec2Model ----
(***************************************************************************)
(* A model of the document worker of office-automation                     *)
(* (src/worker_main.py): OCR text extraction, heuristic field extraction,  *)
(* rule based classification, the confidence gate, duplicate detection,    *)
(* routing of the artifact between directories and the two audit sinks     *)
(* (the CSV log and the SQLite store); of its polling loop main_loop; and  *)
(* of the e-mail ingestion (src/email_ingestion.py), which saves the       *)
(* attachments of unseen messages, stamps each with a QR code, delivers it *)
(* to the worker endpoint and routes it.  Spec is the worker called file   *)
(* by file, LoopSpec the worker under main_loop, MailSpec one run of the   *)
(* e-mail ingestion, RunsSpec the e-mail ingestion run again and again,    *)
(* ExtractSpec one call of extract_text.                                   *)
(*                                                                         *)
(* Text that the code inspects character by character (OCR text, file      *)
(* names, keywords) is a sequence of one-character strings.  Text that the *)
(* code only passes on (status words, record values, paths) is a string.   *)
(* Confidences are integers in hundredths: 0.85 is 85, and the 96.0 that   *)
(* the OCR engine reports for a word is 9600.                              *)
(***************************************************************************)
EXTENDS Integers, Sequences, FiniteSets, TLC

(***************************************************************************)
(* Characters: what Python's str methods and the character classes of re   *)
(* do on the characters the texts of the model are made of                 *)
(***************************************************************************)

UpperChars ==
  <<"A","B","C","D","E","F","G","H","I","J","K","L","M",
    "N","O","P","Q","R","S","T","U","V","W","X","Y","Z">>

LowerChars ==
  <<"a","b","c","d","e","f","g","h","i","j","k","l","m",
    "n","o","p","q","r","s","t","u","v","w","x","y","z">>

DigitChars == <<"0","1","2","3","4","5","6","7","8","9">>

\* The other characters of the texts and names of the model, in code point order.
AsciiOrder ==
  <<"\n", " ", "#", "$", ",", "-", ".", "/">> \o DigitChars \o <<":">>
    \o UpperChars \o <<"_">> \o LowerChars

Range(s) == {s[i] : i \in DOMAIN s}

IndexOf(c, s) == CHOOSE i \in DOMAIN s : s[i] = c

IsDigit(c) == c \in Range(DigitChars)

IsUpper(c) == c \in Range(UpperChars)

IsLower(c) == c \in Range(LowerChars)

IsAlpha(c) == IsUpper(c) \/ IsLower(c)

\* \w of the re module
IsWordChar(c) == IsAlpha(c) \/ IsDigit(c) \/ c = "_"

\* \s of the re module
IsSpace(c) == c \in {" ", "\n", "\t"}

\* ord(c), as far as comparisons need it
Ord(c) == IndexOf(c, AsciiOrder)

LowerChar(c) == IF IsUpper(c) THEN LowerChars[IndexOf(c, UpperChars)] ELSE c

UpperChar(c) == IF IsLower(c) THEN UpperChars[IndexOf(c, LowerChars)] ELSE c

\* str.lower()
Lower(s) == [i \in DOMAIN s |-> LowerChar(s[i])]

\* s[i:j] of Python with 1-based i and exclusive j
Slice(s, i, j) == SubSeq(s, i, j - 1)

\* s.startswith(kw, i), 1-based
MatchesAt(s, kw, i) ==
  /\ i + Len(kw) - 1 <= Len(s)
  /\ \A k \in 1..Len(kw) : s[i + k - 1] = kw[k]

\* kw in s
Contains(s, kw) == \E i \in 1..(Len(s) - Len(kw) + 1) : MatchesAt(s, kw, i)

\* the characters of s joined into one string
RECURSIVE Join(_)
Join(s) == IF s = <<>> THEN "" ELSE Head(s) \o Join(Tail(s))

\* s < t for str
RECURSIVE StrLess(_, _)
StrLess(s, t) ==
  IF t = <<>> THEN FALSE
  ELSE IF s = <<>> THEN TRUE
  ELSE IF Head(s) = Head(t) THEN StrLess(Tail(s), Tail(t))
  ELSE Ord(Head(s)) < Ord(Head(t))

\* sorted(set_of_str)
RECURSIVE SortedStrs(_)
SortedStrs(S) ==
  IF S = {} THEN <<>>
  ELSE LET m == CHOOSE x \in S : \A y \in S \ {x} : StrLess(x, y)
       IN  <<m>> \o SortedStrs(S \ {m})

\* str.strip()
RECURSIVE LStrip(_)
LStrip(s) == IF s # <<>> /\ IsSpace(Head(s)) THEN LStrip(Tail(s)) ELSE s

RECURSIVE RStrip(_)
RStrip(s) ==
  IF s # <<>> /\ IsSpace(s[Len(s)]) THEN RStrip(SubSeq(s, 1, Len(s) - 1)) ELSE s

Strip(s) == RStrip(LStrip(s))

\* sep.join(parts) for sequences of characters
RECURSIVE JoinWith(_, _)
JoinWith(sep, parts) ==
  IF parts = <<>> THEN <<>>
  ELSE IF Len(parts) = 1 THEN parts[1]
  ELSE parts[1] \o sep \o JoinWith(sep, Tail(parts))

\* str.splitlines() for "\n"
RECURSIVE SplitLinesFrom(_, _, _)
SplitLinesFrom(s, i, start) ==
  IF i > Len(s) THEN (IF start > Len(s) THEN <<>> ELSE <<Slice(s, start, i)>>)
  ELSE IF s[i] = "\n" THEN <<Slice(s, start, i)>> \o SplitLinesFrom(s, i + 1, i + 1)
  ELSE SplitLinesFrom(s, i + 1, start)

SplitLines(s) == SplitLinesFrom(s, 1, 1)

\* the length of the run of characters satisfying P that starts at i
RECURSIVE RunLen(_, _, _)
RunLen(P(_), s, i) ==
  IF i <= Len(s) /\ P(s[i]) THEN 1 + RunLen(P, s, i + 1) ELSE 0

\* \b of the re module before position i (1..Len(s)+1)
WordBoundary(s, i) ==
  LET before == i > 1 /\ IsWordChar(s[i - 1])
      after  == i <= Len(s) /\ IsWordChar(s[i])
  IN  before # after

(***************************************************************************)
(* re.findall: the non-overlapping matches of a pattern, left to right.    *)
(* MatchLen(s, i) is the length of the pattern's match at position i (0:   *)
(* none; no pattern here matches the empty string) and Skip(s, i) is the   *)
(* number of matched characters in front of the pattern's group.           *)
(***************************************************************************)

RECURSIVE FindAllFrom(_, _, _, _)
FindAllFrom(MatchLen(_, _), Skip(_, _), s, i) ==
  IF i > Len(s) THEN <<>>
  ELSE LET n == MatchLen(s, i)
       IN  IF n > 0
           THEN <<Slice(s, i + Skip(s, i), i + n)>>
                  \o FindAllFrom(MatchLen, Skip, s, i + n)
           ELSE FindAllFrom(MatchLen, Skip, s, i + 1)

FindAll(MatchLen(_, _), s) == FindAllFrom(MatchLen, LAMBDA t, i : 0, s, 1)

DigitsAt(s, i, n) == i + n - 1 <= Len(s) /\ \A k \in i..(i + n - 1) : IsDigit(s[k])

CharAt(s, i, c) == i <= Len(s) /\ s[i] = c

\* r"\b\d{4}-\d{2}-\d{2}\b"
IsoDateLen(s, i) ==
  IF /\ WordBoundary(s, i)
     /\ DigitsAt(s, i, 4) /\ CharAt(s, i + 4, "-")
     /\ DigitsAt(s, i + 5, 2) /\ CharAt(s, i + 7, "-")
     /\ DigitsAt(s, i + 8, 2)
     /\ WordBoundary(s, i + 10)
  THEN 10 ELSE 0

\* r"\b\d{2}/\d{2}/\d{4}\b"
SlashDateLen(s, i) ==
  IF /\ WordBoundary(s, i)
     /\ DigitsAt(s, i, 2) /\ CharAt(s, i + 2, "/")
     /\ DigitsAt(s, i + 3, 2) /\ CharAt(s, i + 5, "/")
     /\ DigitsAt(s, i + 6, 4)
     /\ WordBoundary(s, i + 10)
  THEN 10 ELSE 0

\* r"\b\d{1,2}\s+[A-Za-z]{3,}\s+\d{4}\b": every quantifier is followed by a
\* character of another class, so only the maximal runs can match.
LongDateLen(s, i) ==
  LET d   == RunLen(IsDigit, s, i)
      ws1 == RunLen(IsSpace, s, i + d)
      a   == RunLen(IsAlpha, s, i + d + ws1)
      ws2 == RunLen(IsSpace, s, i + d + ws1 + a)
      y   == i + d + ws1 + a + ws2
  IN  IF /\ WordBoundary(s, i)
         /\ d \in 1..2 /\ ws1 >= 1 /\ a >= 3 /\ ws2 >= 1
         /\ DigitsAt(s, y, 4)
         /\ WordBoundary(s, y + 4)
      THEN y + 4 - i ELSE 0

parse_dates(text) ==
  SortedStrs(Range(FindAll(IsoDateLen, text))
               \cup Range(FindAll(SlashDateLen, text))
               \cup Range(FindAll(LongDateLen, text)))

(***************************************************************************)
(* parse_amount.  Amounts are integers in cents.                           *)
(***************************************************************************)

Min(a, b) == IF a <= b THEN a ELSE b

Max(a, b) == IF a >= b THEN a ELSE b

\* (?:,\d{3})* from position p: the position after the last group
RECURSIVE CommaGroupsEnd(_, _)
CommaGroupsEnd(s, p) ==
  IF CharAt(s, p, ",") /\ DigitsAt(s, p + 1, 3) THEN CommaGroupsEnd(s, p + 4) ELSE p

\* the position of the group of r"\$?(-?\d{1,3}(?:,\d{3})*(?:\.\d{2})?)" at i
AmountGroupStart(s, i) == IF CharAt(s, i, "$") THEN i + 1 ELSE i

AmountSkip(s, i) == AmountGroupStart(s, i) - i

AmountLen(s, i) ==
  LET j == AmountGroupStart(s, i)
      k == IF CharAt(s, j, "-") THEN j + 1 ELSE j
      d == Min(3, RunLen(IsDigit, s, k))
      e == CommaGroupsEnd(s, k + d)
      f == IF CharAt(s, e, ".") /\ DigitsAt(s, e + 1, 2) THEN e + 3 ELSE e
  IN  IF d = 0 THEN 0 ELSE f - i

\* int(digits)
RECURSIVE DigitsValue(_)
DigitsValue(s) ==
  IF s = <<>> THEN 0 ELSE DigitsValue(SubSeq(s, 1, Len(s) - 1)) * 10
                           + IndexOf(s[Len(s)], DigitChars) - 1

\* float(a) of a matched amount without its commas, in cents
AmountCents(a) ==
  LET neg   == a # <<>> /\ a[1] = "-"
      body  == IF neg THEN Tail(a) ELSE a
      hasDp == Len(body) >= 3 /\ body[Len(body) - 2] = "."
      whole == IF hasDp THEN SubSeq(body, 1, Len(body) - 3) ELSE body
      frac  == IF hasDp THEN SubSeq(body, Len(body) - 1, Len(body)) ELSE <<"0", "0">>
      v     == DigitsValue(whole) * 100 + DigitsValue(frac)
  IN  IF neg THEN 0 - v ELSE v

\* str(n) for n >= 0
RECURSIVE NatChars(_)
NatChars(n) ==
  IF n < 10 THEN <<DigitChars[n + 1]>>
  ELSE NatChars(n \div 10) \o <<DigitChars[(n % 10) + 1]>>

\* f"{x:.2f}" of an amount in cents
FormatCents(c) ==
  LET m == IF c < 0 THEN 0 - c ELSE c
  IN  (IF c < 0 THEN <<"-">> ELSE <<>>)
        \o NatChars(m \div 100) \o <<".">>
        \o <<DigitChars[((m % 100) \div 10) + 1], DigitChars[(m % 10) + 1]>>

parse_amount(text) ==
  LET amount_match == FindAllFrom(AmountLen, AmountSkip, text, 1)
      cleaned == [i \in DOMAIN amount_match |->
                   SelectSeq(amount_match[i], LAMBDA c : c # ",")]
      numeric == {AmountCents(cleaned[i]) : i \in DOMAIN cleaned}
  IN  IF amount_match = <<>> THEN <<<<"0", ".", "0", "0">>, 20>>
      ELSE <<FormatCents(CHOOSE best \in numeric : \A a \in numeric : a <= best), 90>>

(***************************************************************************)
(* parse_identifiers (re.IGNORECASE), parse_document_type, parse_vendor,   *)
(* parse_line_items and extract_document_metadata.                         *)
(***************************************************************************)

\* r"\b<prefix>[- ]?\d{4,}\b" with a lower-case prefix, ignoring case
PrefixedIdLen(prefix, s, i) ==
  LET p == i + Len(prefix)
      q == IF CharAt(s, p, "-") \/ CharAt(s, p, " ") THEN p + 1 ELSE p
      n == RunLen(IsDigit, s, q)
  IN  IF /\ WordBoundary(s, i)
         /\ MatchesAt(Lower(s), prefix, i)
         /\ n >= 4
         /\ WordBoundary(s, q + n)
      THEN q + n - i ELSE 0

InvIdLen(s, i) == PrefixedIdLen(<<"i", "n", "v">>, s, i)

PoIdLen(s, i) == PrefixedIdLen(<<"p", "o">>, s, i)

\* r"\b\d{8,}\b"
BareIdLen(s, i) ==
  LET n == RunLen(IsDigit, s, i)
  IN  IF WordBoundary(s, i) /\ n >= 8 /\ WordBoundary(s, i + n) THEN n ELSE 0

parse_identifiers(text) ==
  LET ids == Range(FindAll(InvIdLen, text))
               \cup Range(FindAll(PoIdLen, text))
               \cup Range(FindAll(BareIdLen, text))
  IN  <<SortedStrs(ids), IF ids # {} THEN 70 ELSE 20>>

Kw_invoice == <<"i","n","v","o","i","c","e">>

Kw_receipt == <<"r","e","c","e","i","p","t">>

Kw_statement == <<"s","t","a","t","e","m","e","n","t">>

Kw_purchase_order == <<"p","u","r","c","h","a","s","e"," ","o","r","d","e","r">>

\* the mapping of parse_document_type, in its insertion order
DocTypeKeywords ==
  << [doc_type |-> Kw_invoice,
      keywords |-> <<Kw_invoice, <<"i","n","v","#">> >>],
     [doc_type |-> Kw_receipt,
      keywords |-> <<Kw_receipt,
                     <<"t","h","a","n","k","s"," ","f","o","r"," ",
                       "y","o","u","r"," ","p","u","r","c","h","a","s","e">> >>],
     [doc_type |-> <<"p","u","r","c","h","a","s","e","_","o","r","d","e","r">>,
      keywords |-> <<Kw_purchase_order, <<"p","o"," ","#">>, <<"p","o","#">> >>],
     [doc_type |-> Kw_statement,
      keywords |-> <<Kw_statement,
                     <<"b","a","l","a","n","c","e"," ","f","o","r","w","a","r","d">> >>] >>

AnyKeywordIn(keywords, lower) ==
  \E k \in DOMAIN keywords : Contains(lower, Lower(keywords[k]))

parse_document_type(text) ==
  LET lower == Lower(text)
      hits  == {m \in DOMAIN DocTypeKeywords :
                  \E k \in DOMAIN DocTypeKeywords[m].keywords :
                    Contains(lower, DocTypeKeywords[m].keywords[k])}
  IN  IF hits = {} THEN <<<<"d","o","c","u","m","e","n","t">>, 30>>
      ELSE <<DocTypeKeywords[CHOOSE m \in hits : \A n \in hits : m <= n].doc_type, 85>>

\* re.search(r"[A-Za-z]{2,}", line)
HasTwoLetters(line) ==
  \E i \in 1..(Len(line) - 1) : IsAlpha(line[i]) /\ IsAlpha(line[i + 1])

parse_vendor(text) ==
  LET lines == SplitLines(text)
      vendor_lines ==
        SelectSeq(lines,
                  LAMBDA line :
                    /\ ~ AnyKeywordIn(<<Kw_invoice, <<"b","i","l","l">>, Kw_statement>>,
                                    Lower(line))
                    /\ Len(Strip(line)) > 4
                    /\ HasTwoLetters(line))
      vendor == IF vendor_lines # <<>> THEN Strip(vendor_lines[1]) ELSE <<>>
  IN  <<vendor, IF vendor # <<>> THEN 60 ELSE 20>>

\* str.split(): the maximal runs of non-whitespace
RECURSIVE SplitWordsFrom(_, _)
SplitWordsFrom(s, i) ==
  IF i > Len(s) THEN <<>>
  ELSE IF IsSpace(s[i]) THEN SplitWordsFrom(s, i + 1)
  ELSE LET n == RunLen(LAMBDA c : ~ IsSpace(c), s, i)
       IN  <<Slice(s, i, i + n)>> \o SplitWordsFrom(s, i + n)

SplitWords(s) == SplitWordsFrom(s, 1)

\* re.search(r"\bqty\b", line.lower())
HasQtyWord(line) ==
  LET lower == Lower(line)
  IN  \E i \in 1..(Len(lower) - 2) :
        /\ MatchesAt(lower, <<"q","t","y">>, i)
        /\ WordBoundary(lower, i) /\ WordBoundary(lower, i + 3)

\* p.replace(".", "", 1).isdigit()
IsQuantityToken(p) ==
  LET dots  == {i \in DOMAIN p : p[i] = "."}
      first == IF dots = {} THEN 0 ELSE CHOOSE i \in dots : \A j \in dots : i <= j
      rest  == [i \in 1..(Len(p) - (IF first = 0 THEN 0 ELSE 1)) |->
                  IF first # 0 /\ i >= first THEN p[i + 1] ELSE p[i]]
  IN  rest # <<>> /\ \A i \in DOMAIN rest : IsDigit(rest[i])

\* re.match(r"\$?\d", p)
IsAmountToken(p) ==
  \/ (Len(p) >= 1 /\ IsDigit(p[1]))
  \/ (Len(p) >= 2 /\ p[1] = "$" /\ IsDigit(p[2]))

\* next((p for p in parts if P(p)), "")
FirstOr(P(_), parts) ==
  LET hits == SelectSeq(parts, P) IN IF hits # <<>> THEN hits[1] ELSE <<>>

LineItemOf(line) ==
  LET parts  == SplitWords(line)
      qty    == FirstOr(IsQuantityToken, parts)
      amount == FirstOr(IsAmountToken, parts)
      description ==
        JoinWith(<<" ">>, SelectSeq(parts, LAMBDA p : p # qty /\ p # amount))
  IN  [description |-> description, quantity |-> qty, amount |-> amount]

parse_line_items(text) ==
  LET lines == SplitLines(text)
      items == [i \in DOMAIN lines |-> LineItemOf(lines[i])]
      keep  == {i \in DOMAIN lines :
                  /\ HasQtyWord(lines[i])
                  /\ \E k \in DOMAIN lines[i] : IsDigit(lines[i][k])
                  /\ items[i].description # <<>>}
  IN  SelectSeq([i \in DOMAIN lines |-> IF i \in keep THEN <<items[i]>> ELSE <<>>],
                LAMBDA x : x # <<>>)

\* the dict extract_document_metadata builds from what the parsers return
MetadataOf(dt, vn, tot, ids, dates, li) ==
  [document_type            |-> dt[1],
   document_type_confidence |-> dt[2],
   vendor                   |-> vn[1],
   vendor_confidence        |-> vn[2],
   total                    |-> tot[1],
   total_confidence         |-> tot[2],
   identifiers              |-> ids[1],
   identifier_confidence    |-> ids[2],
   dates                    |-> dates,
   line_items               |-> [i \in DOMAIN li |-> li[i][1]]]

extract_document_metadata(text) ==
  MetadataOf(parse_document_type(text), parse_vendor(text), parse_amount(text),
             parse_identifiers(text), parse_dates(text), parse_line_items(text))

(***************************************************************************)
(* Routing rules and classify_text                                         *)
(***************************************************************************)

Tag_AP == <<"A", "P">>

Tag_AR == <<"A", "R">>

Prio(n) == <<"P", DigitChars[n + 1]>>

\* the rules load_routing_rules returns when there is no rules file; the
\* dicts are sequences in their insertion order
ROUTING_RULES ==
  [fallback_tag |-> <<"M", "i", "s", "c">>,
   priorities |->
     << [p |-> Prio(1),
         keywords |-> << <<"u","r","g","e","n","t">>, <<"o","v","e","r","d","u","e">> >>],
        [p |-> Prio(2), keywords |-> <<Kw_invoice, Kw_statement>>] >>,
   keyword_routes |->
     << [tag |-> Tag_AP,
         keywords |-> <<Kw_invoice, Kw_purchase_order, <<"v","e","n","d","o","r">> >>],
        [tag |-> Tag_AR,
         keywords |-> <<Kw_receipt, <<"p","a","y","m","e","n","t">> >>] >>,
   document_type_routes |->
     << [doc_type |-> Kw_invoice, tag |-> Tag_AP],
        [doc_type |-> Kw_receipt, tag |-> Tag_AR] >>]

\* the metadata driven step of classify_text
ClassifyByDocType(rules, metadata, d) ==
  LET routes == rules.document_type_routes
      hit    == {i \in DOMAIN routes : routes[i].doc_type = metadata.document_type}
  IN  IF metadata.document_type # <<>> /\ hit # {}
      THEN [d EXCEPT !.route_tag = routes[CHOOSE i \in hit : TRUE].tag,
                     !.confidence = Max(d.confidence, metadata.document_type_confidence)]
      ELSE d

\* a priority loop that stops at the first list with a keyword in the text
RECURSIVE FirstPriority(_, _, _, _)
FirstPriority(priorities, lower, i, d) ==
  IF i > Len(priorities) THEN d
  ELSE IF AnyKeywordIn(priorities[i].keywords, lower)
  THEN [d EXCEPT !.priority = priorities[i].p, !.confidence = Max(d.confidence, 60)]
  ELSE FirstPriority(priorities, lower, i + 1, d)

\* the priority loop of classify_text over priorities[i..]
RECURSIVE ClassifyPriorities(_, _, _, _)
ClassifyPriorities(priorities, lower, i, d) ==
  IF i > Len(priorities) THEN d
  ELSE ClassifyPriorities(
         priorities, lower, i + 1,
         IF AnyKeywordIn(priorities[i].keywords, lower)
         THEN [d EXCEPT !.priority = priorities[i].p,
                        !.confidence = Max(d.confidence, 60)]
         ELSE d)

\* a route loop that sets the confidence of a match instead of raising it
RECURSIVE RoutesAssign(_, _, _, _)
RoutesAssign(routes, lower, i, d) ==
  IF i > Len(routes) THEN d
  ELSE RoutesAssign(
         routes, lower, i + 1,
         IF AnyKeywordIn(routes[i].keywords, lower)
         THEN [d EXCEPT !.route_tag = routes[i].tag, !.confidence = 80]
         ELSE d)

\* the route loop of classify_text over keyword_routes[i..]
RECURSIVE ClassifyRoutes(_, _, _, _)
ClassifyRoutes(routes, lower, i, d) ==
  IF i > Len(routes) THEN d
  ELSE ClassifyRoutes(
         routes, lower, i + 1,
         IF AnyKeywordIn(routes[i].keywords, lower)
         THEN [d EXCEPT !.route_tag = routes[i].tag,
                        !.confidence = Max(d.confidence, 80)]
         ELSE d)

\* a classifier that applies no rule: the seed decision for every text
FallbackOnly(text, metadata) ==
  [route_tag |-> ROUTING_RULES.fallback_tag, priority |-> Prio(3), confidence |-> 20]

classify_text(text, metadata) ==
  LET lower == Lower(text)
      seed  == [route_tag |-> ROUTING_RULES.fallback_tag,
                priority |-> Prio(3),
                confidence |-> 20]
      d1    == ClassifyByDocType(ROUTING_RULES, metadata, seed)
      d2    == ClassifyPriorities(ROUTING_RULES.priorities, lower, 1, d1)
  IN  ClassifyRoutes(ROUTING_RULES.keyword_routes, lower, 1, d2)

(***************************************************************************)
(* The OCR engine and perform_ocr.  What pytesseract.image_to_data reports *)
(* for a page is a sequence of entries [text, conf, numeric]: conf is in   *)
(* hundredths (96.0 is 9600, -1 is -100); numeric is FALSE for a value     *)
(* float() rejects.                                                        *)
(***************************************************************************)

RECURSIVE SumSeq(_)
SumSeq(s) == IF s = <<>> THEN 0 ELSE Head(s) + SumSeq(Tail(s))

\* sum(xs) / len(xs) if xs else 0.0
Mean(xs) == IF xs # <<>> THEN SumSeq(xs) \div Len(xs) ELSE 0

extract_text_from_image(page) ==
  LET texts == SelectSeq(page, LAMBDA e : Strip(e.text) # <<>>)
      confs == SelectSeq(page, LAMBDA e : e.numeric /\ e.conf >= 0)
  IN  [text |-> JoinWith(<<" ">>, [i \in DOMAIN texts |-> texts[i].text]),
       conf |-> Mean([i \in DOMAIN confs |-> confs[i].conf])]

(***************************************************************************)
(* Paths.  A path is <<directory, name>>: the directory a string, the name *)
(* a sequence of characters.  The file system maps the paths that exist to *)
(* files [id, doc, writing]: id names the artifact, doc its content.       *)
(***************************************************************************)

RAW_SCANS_DIR == "data/incoming"

NEEDS_REVIEW_DIR == "data/needs_review"

DUPLICATE_HOLD_DIR == "data/duplicate_hold"

STAGING_DIR == "data/staging"

TEMP_DIR == "data/temp"

PERSONAL_STORAGE_DIR == "data/personal/secure"

\* str(path)
PathStr(path) == path[1] \o "/" \o Join(path[2])

\* the index of the last "." of a name, 0 if there is none
LastDot(name) ==
  LET dots == {i \in DOMAIN name : name[i] = "."}
  IN  IF dots = {} THEN 0 ELSE CHOOSE i \in dots : \A j \in dots : j <= i

\* PurePath.suffix
Suffix(name) ==
  LET i == LastDot(name)
  IN  IF 1 < i /\ i < Len(name) THEN SubSeq(name, i, Len(name)) ELSE <<>>

\* PurePath.stem
Stem(name) ==
  LET i == LastDot(name)
  IN  IF 1 < i /\ i < Len(name) THEN SubSeq(name, 1, i - 1) ELSE name

detect_file_format(name) ==
  LET suffix == Lower(Suffix(name))
      bare   == IF suffix # <<>> THEN Tail(suffix) ELSE suffix
  IN  IF bare # <<>> THEN bare ELSE <<"u","n","k","n","o","w","n">>

Kw_personal == <<"p","e","r","s","o","n","a","l">>

\* a check that finds no file personal
NeverPersonal(name, metadata) == FALSE

is_personal_file(name, metadata) ==
  \/ AnyKeywordIn(<< <<"o","w","n","e","r">>, Kw_personal >>, Lower(name))
  \/ Contains(Lower(metadata.document_type), Kw_personal)

\* shutil.move(src, dst) of a file: os.rename, which replaces a file at dst
Move(files, src, dst) ==
  [q \in (DOMAIN files \ {src}) \cup {dst} |-> IF q = dst THEN files[src] ELSE files[q]]

\* Path.exists()
Exists(files, path) == path \in DOMAIN files

\* perform_ocr on a readable file: a PDF is rasterized into its pages, any
\* other file is opened as one image (its first page); the text and the
\* confidence it returns
perform_ocr(name, pages) ==
  LET imgs  == IF Lower(Suffix(name)) = <<".", "p", "d", "f">> THEN pages ELSE <<pages[1]>>
      res   == [i \in DOMAIN imgs |-> extract_text_from_image(imgs[i])]
      kept  == SelectSeq(res, LAMBDA r : r.conf # 0)
  IN  [text |-> Strip(JoinWith(<<"\n">>, [i \in DOMAIN res |-> res[i].text])),
       conf |-> Mean([i \in DOMAIN kept |-> kept[i].conf])]

(***************************************************************************)
(* The calendar: datetime.today() and datetime.utcnow() on day number d.   *)
(***************************************************************************)

\* the directory ensure_personal_directory returns: base_dir / strftime("%Y%m%d")
ensure_personal_directory(base_dir, d) == base_dir \o "/2024030" \o DigitChars[d + 2]

Sep2 == <<"_", "_">>

\* today is strftime("%Y-%m-%d")
build_filename(d, route_tag, priority, amount, doc_type, doc_id, ext) ==
  LET upper == [i \in DOMAIN doc_type |-> UpperChar(doc_type[i])]
      safe_doc_type == [i \in DOMAIN upper |-> IF upper[i] = " " THEN "_" ELSE upper[i]]
      today == <<"2","0","2","4","-","0","3","-","0", DigitChars[d + 2]>>
  IN  today \o Sep2 \o <<"G","E","N">> \o Sep2 \o <<"M","A","I","N">> \o Sep2
        \o safe_doc_type \o <<"-">> \o doc_id \o Sep2 \o route_tag \o Sep2
        \o priority \o Sep2 \o amount \o ext

(***************************************************************************)
(* Record values carry their Python type: <<"str", s>>, <<"num", n>> (a    *)
(* float, in hundredths), <<"bool", b>>, <<"list", items>> and             *)
(* <<"dict", <<key, value>> pairs>>.  A record (a dict) is a sequence of   *)
(* <<key, value>> pairs in insertion order.                                *)
(***************************************************************************)

StrV(s) == <<"str", s>>

NumV(n) == <<"num", n>>

BoolV(b) == <<"bool", b>>

ListV(items) == <<"list", items>>

DictV(pairs) == <<"dict", pairs>>

\* a str value from characters
CharsV(s) == StrV(Join(s))

Keys(record) == [i \in DOMAIN record |-> record[i][1]]

HasKey(record, key) == \E i \in DOMAIN record : record[i][1] = key

\* record[key]
Get(record, key) == record[CHOOSE i \in DOMAIN record : record[i][1] = key][2]

\* {**a, **b}: a key of b that a has keeps its place and takes b's value
Merge(a, b) ==
  [i \in DOMAIN a |-> IF HasKey(b, a[i][1]) THEN <<a[i][1], Get(b, a[i][1])>> ELSE a[i]]
    \o SelectSeq(b, LAMBDA kv : ~ HasKey(a, kv[1]))

\* repr of a float given in hundredths: 85 is "0.85", 30 is "0.3", 0 is "0.0"
FloatStr(n) ==
  LET m    == IF n < 0 THEN 0 - n ELSE n
      frac == IF m % 10 = 0
              THEN <<DigitChars[((m % 100) \div 10) + 1]>>
              ELSE <<DigitChars[((m % 100) \div 10) + 1], DigitChars[(m % 10) + 1]>>
  IN  Join((IF n < 0 THEN <<"-">> ELSE <<>>) \o NatChars(m \div 100) \o <<".">> \o frac)

RECURSIVE JoinStrings(_, _)
JoinStrings(sep, parts) ==
  IF parts = <<>> THEN ""
  ELSE IF Len(parts) = 1 THEN parts[1]
  ELSE parts[1] \o sep \o JoinStrings(sep, Tail(parts))

Quoted(s) == "\"" \o s \o "\""

\* json.dumps(value)
RECURSIVE JsonDumps(_)
JsonDumps(v) ==
  CASE v[1] = "str"  -> Quoted(v[2])
    [] v[1] = "num"  -> FloatStr(v[2])
    [] v[1] = "bool" -> (IF v[2] THEN "true" ELSE "false")
    [] v[1] = "list" ->
         "[" \o JoinStrings(", ", [i \in DOMAIN v[2] |-> JsonDumps(v[2][i])]) \o "]"
    [] v[1] = "dict" ->
         "{" \o JoinStrings(", ", [i \in DOMAIN v[2] |->
                                     Quoted(v[2][i][1]) \o ": " \o JsonDumps(v[2][i][2])])
             \o "}"

\* isinstance(value, (dict, list))
IsContainer(v) == v[1] \in {"list", "dict"}

sanitize_record_values(record) ==
  [i \in DOMAIN record |->
     IF IsContainer(record[i][2])
     THEN <<record[i][1], StrV(JsonDumps(record[i][2]))>>
     ELSE record[i]]

\* what csv.writer writes for a value that is no container: str(value)
CsvCell(v) ==
  CASE v[1] = "str"  -> v[2]
    [] v[1] = "num"  -> FloatStr(v[2])
    [] v[1] = "bool" -> (IF v[2] THEN "True" ELSE "False")

(***************************************************************************)
(* The audit sinks.  The CSV log is [header, rows]: the header a sequence  *)
(* of field names and each row a function from the header's names to the  *)
(* strings csv.DictReader reads back.  The store is [columns, rows]: the   *)
(* columns of table documents and the records inserted.                    *)
(***************************************************************************)

\* the header of log_to_csv after "for key in record.keys(): if key not in
\* header: header.append(key)"; the keys of a dict are distinct
ExtendHeader(header, keys) ==
  LET known == Range(header)
  IN  header \o SelectSeq(keys, LAMBDA key : key \notin known)

\* a rewrite that loses what the file held: every cell of the row empty
BlankRow(row, header) == [h \in Range(header) |-> ""]

\* {h: row.get(h, "") for h in header} as csv.DictWriter writes it, for a
\* row read back from the file
RewriteRow(row, header) ==
  [h \in Range(header) |-> IF h \in DOMAIN row THEN row[h] ELSE ""]

\* the same for the record of this call
WriteRecord(record, header) ==
  [h \in Range(header) |-> IF HasKey(record, h) THEN CsvCell(Get(record, h)) ELSE ""]

log_to_csv(csv, record) ==
  LET rec    == sanitize_record_values(record)
      header == ExtendHeader(csv.header, Keys(rec))
  IN  [header |-> header,
       rows   |-> [i \in DOMAIN csv.rows |-> RewriteRow(csv.rows[i], header)]
                    \o <<WriteRecord(rec, header)>>]

\* FlexibleStore.add_columns
add_columns(store, record_keys) ==
  [store EXCEPT !.columns = store.columns \cup record_keys]

\* FlexibleStore.record: [store, exc]; exc is "" when the insert is committed.
\* sqlite3 binds None, int, float, str and bytes; any other value raises
StoreRecord(store, record) ==
  LET grown == add_columns(store, Range(Keys(record)))
  IN  IF \A i \in DOMAIN record : ~ IsContainer(record[i][2])
      THEN [store |-> [grown EXCEPT !.rows = Append(grown.rows, record)], exc |-> ""]
      ELSE [store |-> grown, exc |-> "Error binding parameter: type 'list' is not supported"]

(***************************************************************************)
(* The inputs of the model: file names an external producer uses, file     *)
(* contents (what the rasterizer and the OCR engine make of them, and      *)
(* their CRC-32), and the arrivals (name, content) the model draws from.   *)
(***************************************************************************)

Name_scan == <<"s","c","a","n",".","p","n","g">>

Name_copy == <<"c","o","p","y",".","p","n","g">>

Name_owner == <<"O","w","n","e","r","-","t","a","x",".","P","D","F">>

Name_memo == <<"m","e","m","o",".","d","o","c","x">>

Entry(text, conf) == [text |-> text, conf |-> conf, numeric |-> TRUE]

\* a layout row of image_to_data: no text, conf -1
LayoutRow == Entry(<<>>, -100)

InvoiceWords ==
  << <<"I","n","v","o","i","c","e">>,
     <<"#","I","N","V","-","1","0","2","9","3">>,
     <<"T","o","t","a","l">>,
     <<"$","4","8","2",".","1","0">>,
     <<"d","u","e">>,
     <<"2","0","2","4","-","0","3","-","0","1">> >>

\* a page whose words the engine reads with the given confidences
PageOf(words, confs) ==
  <<LayoutRow>> \o [i \in DOMAIN words |-> Entry(words[i], confs[i])]

\* the contents: 1 a clean invoice, 2 a blank page, 3 a note, 4 a faint
\* invoice (word confidences 0.0 and 1.0 of 100), 5 a file the rasterizer or
\* the engine cannot read, 6 a two page receipt whose second page is blank,
\* 7 a smudged page: the engine reports one word that is a blank, with
\* confidence 95.0
Documents ==
  << [readable |-> TRUE,
      pages |-> <<PageOf(InvoiceWords, <<9600, 9500, 9700, 9600, 9500, 9700>>)>>,
      crc |-> <<"3","d","4","f","9","a","1","c">>],
     [readable |-> TRUE,
      pages |-> << <<LayoutRow, LayoutRow>> >>,
      crc |-> <<"0","0","b","1","a","4","7","e">>],
     [readable |-> TRUE,
      pages |-> << <<LayoutRow, [text |-> <<>>, conf |-> 0, numeric |-> FALSE],
                     Entry(<<"h","e","l","l","o">>, 9000)>> >>,
      crc |-> <<"a","1","7","7","0","2","c","5">>],
     [readable |-> TRUE,
      pages |-> <<PageOf(InvoiceWords, <<0, 0, 100, 0, 100, 0>>)>>,
      crc |-> <<"7","e","e","2","1","0","9","b">>],
     [readable |-> FALSE,
      pages |-> <<>>,
      crc |-> <<"f","f","0","0","5","1","d","2">>],
     [readable |-> TRUE,
      pages |-> <<PageOf(<< <<"P","a","y","m","e","n","t">>,
                            <<"r","e","c","e","i","p","t">>,
                            <<"1","2","3","4","5","6","7","8">> >>,
                         <<8800, 8800, 8800>>),
                  <<LayoutRow>> >>,
      crc |-> <<"5","c","0","9","e","e","4","1">>],
     [readable |-> TRUE,
      pages |-> << <<LayoutRow, Entry(<<" ">>, 9500)>> >>,
      crc |-> <<"9","1","c","3","0","6","a","d">>],
     [readable |-> TRUE,
      pages |-> <<PageOf(<< <<"U","r","g","e","n","t">>, Kw_invoice,
                            <<"p","a","y","m","e","n","t">> >>,
                         <<9400, 9400, 9400>>)>>,
      crc |-> <<"2","b","6","4","d","0","f","3">>] >>

\* crc32_for_file, by content
crc32_for_file(doc) == Documents[doc].crc

\* the (name, content) pairs a producer may put into the intake directory;
\* only a PDF has more than one page
Arrivals ==
  ({Name_scan} \X {1, 2, 3, 4, 5, 7, 8})
    \cup ({Name_copy} \X {1})
    \cup ({Name_owner} \X {1, 6})
    \cup ({Name_memo} \X {1})

\* What perform_ocr, extract_document_metadata and classify_text compute for
\* a readable content under a name, tabulated once: the OCR result, the text
\* as written to the .txt file, the metadata, the metadata dict with
\* metadata["file_format"], the routing decision and the triple
\* (route_tag, priority, confidence) classify_text returns.
LineItemV(item) ==
  DictV(<< <<"description", CharsV(item.description)>>,
           <<"quantity", CharsV(item.quantity)>>,
           <<"amount", CharsV(item.amount)>> >>)

\* the dict extract_document_metadata returns, with metadata["file_format"]
MetadataRecord(metadata, file_format) ==
  << <<"document_type", CharsV(metadata.document_type)>>,
     <<"document_type_confidence", NumV(metadata.document_type_confidence)>>,
     <<"vendor", CharsV(metadata.vendor)>>,
     <<"vendor_confidence", NumV(metadata.vendor_confidence)>>,
     <<"total", CharsV(metadata.total)>>,
     <<"total_confidence", NumV(metadata.total_confidence)>>,
     <<"identifiers",
       ListV([i \in DOMAIN metadata.identifiers |-> CharsV(metadata.identifiers[i])])>>,
     <<"identifier_confidence", NumV(metadata.identifier_confidence)>>,
     <<"dates", ListV([i \in DOMAIN metadata.dates |-> CharsV(metadata.dates[i])])>>,
     <<"line_items",
       ListV([i \in DOMAIN metadata.line_items |-> LineItemV(metadata.line_items[i])])>>,
     <<"file_format", CharsV(file_format)>> >>

Classified(name, ocr, metadata, decision) ==
  [ocr |-> ocr, text |-> Join(ocr.text), metadata |-> metadata,
   record |-> MetadataRecord(metadata, detect_file_format(name)),
   decision |-> decision,
   triple |-> <<Join(decision.route_tag), Join(decision.priority), decision.confidence>>]

Extracted(name, ocr, metadata) ==
  Classified(name, ocr, metadata, classify_text(ocr.text, metadata))

Analysed(name, ocr) == Extracted(name, ocr, extract_document_metadata(ocr.text))

AnalysisOf ==
  [a \in {x \in Arrivals : Documents[x[2]].readable} |->
     Analysed(a[1], perform_ocr(a[1], Documents[a[2]].pages))]

Analysis == AnalysisOf @@ <<>>

(***************************************************************************)
(* Configuration (DEFAULT_CONFIG) and the bounds of the model              *)
(***************************************************************************)

\* polling.allowed_extensions
AllowedExtensions ==
  { <<".","p","d","f">>, <<".","p","n","g">>, <<".","j","p","g">>,
    <<".","j","p","e","g">>, <<".","t","i","f">>, <<".","t","i","f","f">> }

\* classification.min_confidence of DEFAULT_CONFIG: 0.5
DefaultMinConfidence == 50

\* the values of classification.min_confidence the model configures
MinConfidences == {30, DefaultMinConfidence}

\* artifacts the producer delivers in a run
MaxArtifacts == 2

\* sink and file system faults the environment injects in a run
MaxFaults == 1

\* the last day number of a run (day 0 is 2024-03-01)
MaxDay == 1

(***************************************************************************)
(* handle_file.  It is computed on a world w = [files, ocr_text, csv,      *)
(* store, clock] and yields the world it leaves.  An exception is its      *)
(* message, "" for none.  fault names the one call of this run the         *)
(* environment makes raise: "move" the first shutil.move out of intake,    *)
(* "csv" and "db" the sink writes of the try body, "csv_err" and "db_err"  *)
(* the sink writes of the except handler.                                  *)
(***************************************************************************)

NoFile == [id |-> 0, doc |-> 0, writing |-> FALSE]

Tick(w) == [w EXCEPT !.clock = @ + 1]

\* the seven fields every record starts with
BaseRecord(now, name, final_path, route_tag, priority, status, error) ==
  << <<"timestamp", StrV("T" \o Join(NatChars(now)))>>,
     <<"original_path", StrV(PathStr(<<RAW_SCANS_DIR, name>>))>>,
     <<"final_path", StrV(final_path)>>,
     <<"route_tag", CharsV(route_tag)>>,
     <<"priority", CharsV(priority)>>,
     <<"status", StrV(status)>>,
     <<"error", StrV(error)>> >>

ConfidenceFields(combined, ocr_conf) ==
  << <<"classification_confidence", NumV(combined)>>,
     <<"ocr_confidence", NumV(ocr_conf)>> >>

\* what a run reports besides the world w it leaves: the exception exc that
\* ended it, whether the fault was met (hit), the records log_to_csv wrote
\* (logged) and STORE.record committed (stored), and info
Outcome(w, exc, hit, logged, stored, info) ==
  [w |-> w, exc |-> exc, hit |-> hit, logged |-> logged, stored |-> stored,
   info |-> info]

\* STORE.record(record), r being what FlexibleStore.record does
Recorded(w, record, r, db_fails, info) ==
  IF db_fails
  THEN Outcome(w, "OperationalError: database is locked", TRUE, <<record>>, <<>>, info)
  ELSE Outcome([w EXCEPT !.store = r.store], r.exc, FALSE, <<record>>,
               IF r.exc = "" THEN <<record>> ELSE <<>>, info)

\* log_to_csv(record) has written; STORE.record(record) follows
Logged(w, record, db_fails, info) ==
  Recorded(w, record, StoreRecord(w.store, record), db_fails, info)

\* log_to_csv(record); STORE.record(record)
WriteSinks(w, record, csv_fails, db_fails, info) ==
  IF csv_fails
  THEN Outcome(w, "OSError: cannot write worker_log.csv", TRUE, <<>>, <<>>, info)
  ELSE Logged([w EXCEPT !.csv = log_to_csv(@, record)], record, db_fails, info)

\* info of a run: the branch taken, the stages that ran, the status of the
\* record the try body built, the values of the confidence gate and of the
\* routing
NoInfo ==
  [branch |-> "", stages |-> {}, status |-> "",
   class_conf |-> 0, dt_conf |-> 0, ocr_conf |-> 0, combined |-> 0,
   text |-> "", metadata |-> <<>>, record |-> <<>>, decision |-> <<>>,
   triple |-> <<>>,
   dest |-> <<"", <<>>>>, dest_before |-> NoFile]

\* a fusion that is not monotonic: the gap between the two confidences
ConfidenceGap(max_class_conf, ocr_conf_cap) == max_class_conf - ocr_conf_cap

\* combined_confidence of handle_file
CombinedConfidence(max_class_conf, ocr_conf_cap) == Min(max_class_conf, ocr_conf_cap)

\* a gate that also rejects at the threshold
AtOrBelowMinimum(combined_confidence, min_conf) == combined_confidence <= min_conf

\* combined_confidence < min_conf
BelowMinimum(combined_confidence, min_conf) == combined_confidence < min_conf

\* a duplicate check that never finds the destination taken
NeverDuplicate(fs, final_path) == FALSE

\* final_path.exists()
IsDuplicate(fs, final_path) == Exists(fs, final_path)

\* a rejection that relocates the file and writes no record
RejectUnlogged(w, name, fault) ==
  Outcome([w EXCEPT !.files =
             Move(@, <<RAW_SCANS_DIR, name>>, <<NEEDS_REVIEW_DIR, name>>)],
          "", FALSE, <<>>, <<>>,
          [NoInfo EXCEPT !.branch = "unrecognized", !.stages = {"format"},
                         !.status = "UNRECOGNIZED_FORMAT"])

\* the branch "if allowed_exts and path.suffix.lower() not in allowed_exts"
UnrecognizedFormat(w, name, fault) ==
  WriteSinks(Tick([w EXCEPT !.files =
                     Move(@, <<RAW_SCANS_DIR, name>>, <<NEEDS_REVIEW_DIR, name>>)]),
             BaseRecord(w.clock, name, PathStr(<<NEEDS_REVIEW_DIR, name>>), <<>>, <<>>,
                        "UNRECOGNIZED_FORMAT", "")
               \o << <<"file_format", CharsV(detect_file_format(name))>> >>
               \o ConfidenceFields(0, 0),
             fault = "csv", fault = "db",
             [NoInfo EXCEPT !.branch = "unrecognized", !.stages = {"format"},
                            !.status = "UNRECOGNIZED_FORMAT"])

\* the record of a file whose metadata md was extracted
DocumentRecord(now, name, final_path, info, status, error, md) ==
  Merge(BaseRecord(now, name, PathStr(final_path), info.decision.route_tag,
                   info.decision.priority, status, error)
          \o ConfidenceFields(info.combined, info.ocr_conf),
        md)

\* the branch "if combined_confidence < min_conf"
LowConfidence(w, name, info, fault) ==
  WriteSinks(Tick([w EXCEPT !.files =
                     Move(@, <<TEMP_DIR, name>>, <<NEEDS_REVIEW_DIR, name>>)]),
             DocumentRecord(w.clock, name, <<NEEDS_REVIEW_DIR, name>>, info,
                            "NEEDS_REVIEW", "Low confidence " \o Join(FormatCents(info.combined)),
                            info.record),
             fault = "csv", fault = "db",
             [info EXCEPT !.branch = "needs_review", !.status = "NEEDS_REVIEW"])

\* the branch "if final_path.exists()"
Duplicate(w, name, info, md, fault) ==
  WriteSinks(Tick([w EXCEPT !.files =
                     Move(@, <<TEMP_DIR, name>>, <<DUPLICATE_HOLD_DIR, name>>)]),
             DocumentRecord(w.clock, name, <<DUPLICATE_HOLD_DIR, name>>, info,
                            "DUPLICATE", "Duplicate file name", md),
             fault = "csv", fault = "db",
             [info EXCEPT !.branch = "duplicate", !.status = "DUPLICATE"])

\* shutil.move(temp_path, final_path) and the record that follows
Deliver(w, name, info, md, status, fault) ==
  WriteSinks(Tick([w EXCEPT !.files = Move(@, <<TEMP_DIR, name>>, info.dest)]),
             DocumentRecord(w.clock, name, info.dest, info, status, "", md),
             fault = "csv", fault = "db",
             [info EXCEPT !.branch = "routed", !.status = status,
                          !.stages = @ \cup {"move_final"}])

\* handle_file from the duplicate check on; info.dest is final_path
Place(w, name, info, is_personal, fault) ==
  IF IsDuplicate(w.files, info.dest)
  THEN Duplicate(w, name, info,
                 info.record
                   \o << <<"is_personal", BoolV(is_personal)>> >>,
                 fault)
  ELSE Deliver(w, name, info,
               info.record
                 \o << <<"is_personal", BoolV(is_personal)>> >>,
               IF is_personal THEN "PERSONAL_STORED" ELSE "OK", fault)

\* doc_id_str
DocId(metadata, crc) ==
  IF metadata.identifiers # <<>> THEN metadata.identifiers[1] ELSE SubSeq(crc, 1, 6)

\* new_name of the file at data/temp/name
NewName(w, name, info, d) ==
  build_filename(d, info.decision.route_tag, info.decision.priority,
                 info.metadata.total, info.metadata.document_type,
                 DocId(info.metadata, crc32_for_file(w.files[<<TEMP_DIR, name>>].doc)),
                 Lower(Suffix(name)))

\* target_dir
TargetDir(is_personal, d) ==
  IF is_personal THEN ensure_personal_directory(PERSONAL_STORAGE_DIR, d)
  ELSE STAGING_DIR

\* handle_file once final_path is known
Target(w, name, info, is_personal, final_path, fault) ==
  Place(w, name,
        [info EXCEPT !.stages = @ \cup {"filename", "dupcheck"},
                     !.dest = final_path,
                     !.dest_before = IF Exists(w.files, final_path)
                                     THEN w.files[final_path] ELSE NoFile],
        is_personal, fault)

Personal(w, name, info, is_personal, d, fault) ==
  Target(w, name, info, is_personal,
         <<TargetDir(is_personal, d), NewName(w, name, info, d)>>, fault)

\* handle_file from "Build filename" on
Route(w, name, info, d, fault) ==
  Personal(w, name, info, is_personal_file(name, info.metadata), d, fault)

\* what the gate of handle_file works on, an being the analysis of the text
GateInfo(an) ==
  LET max_class_conf == Max(an.decision.confidence, an.metadata.document_type_confidence)
  IN  [NoInfo EXCEPT
         !.stages = {"temp", "ocr", "extract", "classify", "gate"},
         !.class_conf = an.decision.confidence,
         !.dt_conf = an.metadata.document_type_confidence,
         !.ocr_conf = an.ocr.conf,
         !.combined = CombinedConfidence(max_class_conf, an.ocr.conf),
         !.text = an.text,
         !.triple = an.triple,
         !.metadata = an.metadata,
         !.record = an.record,
         !.decision = an.decision]

\* the confidence gate
Gate(w, name, info, fault, d, min_conf) ==
  IF BelowMinimum(info.combined, min_conf)
  THEN LowConfidence(w, name, info, fault)
  ELSE Route(w, name, info, d, fault)

\* ocr_text_path.write_text(text)
WriteText(texts, txt_name, text) ==
  [q \in DOMAIN texts \cup {txt_name} |-> IF q = txt_name THEN text ELSE texts[q]]

\* handle_file after perform_ocr returned an.ocr
Recognized(w, name, an, fault, d, min_conf) ==
  Gate([w EXCEPT !.ocr_text = WriteText(@, Stem(name) \o <<".", "t", "x", "t">>, an.text)],
       name, GateInfo(an), fault, d, min_conf)

\* handle_file once the file of content doc is in data/temp
Scanned(w, name, doc, fault, d, min_conf) ==
  IF ~ Documents[doc].readable
  THEN Outcome(w, "OCR failed", FALSE, <<>>, <<>>,
               [NoInfo EXCEPT !.branch = "ocr_failed", !.stages = {"temp", "ocr"}])
  ELSE Recognized(w, name, Analysis[<<name, doc>>], fault, d, min_conf)

\* the try body of handle_file after the stability check
TryBody(w, name, fault, d, min_conf) ==
  IF AllowedExtensions # {} /\ Lower(Suffix(name)) \notin AllowedExtensions
  THEN IF fault = "move"
       THEN Outcome(w, "PermissionError: file is in use", TRUE, <<>>, <<>>,
                    [NoInfo EXCEPT !.branch = "move_failed", !.stages = {"format"}])
       ELSE UnrecognizedFormat(w, name, fault)
  ELSE IF fault = "move"
  THEN Outcome(w, "PermissionError: file is in use", TRUE, <<>>, <<>>,
               [NoInfo EXCEPT !.branch = "move_failed"])
  ELSE Scanned([w EXCEPT !.files = Move(@, <<RAW_SCANS_DIR, name>>, <<TEMP_DIR, name>>)],
               name, w.files[<<RAW_SCANS_DIR, name>>].doc, fault, d, min_conf)

\* an except handler that takes a staged file back to needs-review
RescueStaged(w, name) ==
  LET staged == {q \in DOMAIN w.files : q[1] = STAGING_DIR}
  IN  IF staged # {}
      THEN [w EXCEPT !.files = Move(@, CHOOSE q \in staged : TRUE,
                                    <<NEEDS_REVIEW_DIR, name>>)]
      ELSE w

\* "if path.exists(): shutil.move(path, error_dest)" of the except handler
Rescue(w, name) ==
  IF Exists(w.files, <<RAW_SCANS_DIR, name>>)
  THEN [w EXCEPT !.files = Move(@, <<RAW_SCANS_DIR, name>>, <<NEEDS_REVIEW_DIR, name>>)]
  ELSE w

\* the except handler of handle_file for the exception exc
ExceptHandler(w, name, exc, fault) ==
  WriteSinks(Tick(Rescue(w, name)),
             BaseRecord(w.clock, name, "", <<>>, <<>>, "ERROR", exc),
             fault = "csv_err", fault = "db_err", NoInfo)

\* what handle_file did when its try body did t and its except handler h;
\* escaped: an exception leaves handle_file
Handled(t, h) ==
  [w |-> h.w, escaped |-> h.exc # "", hit |-> t.hit \/ h.hit,
   logged |-> t.logged \o h.logged, stored |-> t.stored \o h.stored,
   exc |-> t.exc, info |-> t.info]

Caught(t, name, fault) ==
  IF t.exc = ""
  THEN [w |-> t.w, escaped |-> FALSE, hit |-> t.hit,
        logged |-> t.logged, stored |-> t.stored, exc |-> "", info |-> t.info]
  ELSE Handled(t, ExceptHandler(t.w, name, t.exc, fault))

\* handle_file(path) on a file the stability check passes
handle_file(w, name, fault, d, min_conf) ==
  Caught(TryBody(w, name, fault, d, min_conf), name, fault)

(***************************************************************************)
(* The state machine.  files maps a path to the file there: [id, doc,      *)
(* writing], the artifact, its content and whether its producer still has  *)
(* it open.  calls and csv_written are history: what each call of          *)
(* handle_file that passed the stability check did, and the records        *)
(* log_to_csv wrote, in order.  loop is the state of main_loop and mail    *)
(* the state of a run of the e-mail ingestion (src/email_ingestion.py);    *)
(* each is [pc |-> "off"] where its program does not run.                  *)
(***************************************************************************)

VARIABLES files, ocr_text, csv, store, clock, day, min_confidence,
          delivered, faults, calls, csv_written, loop, mail

vars == <<files, ocr_text, csv, store, clock, day, min_confidence,
          delivered, faults, calls, csv_written, loop, mail>>

Statuses(records) == [i \in DOMAIN records |-> Get(records[i], "status")[2]]

Init ==
  /\ files = <<>>
  /\ ocr_text = <<>>
  /\ csv = [header |-> <<>>, rows |-> <<>>]
  /\ store = [columns |-> {"id", "timestamp", "original_path", "final_path",
                            "route_tag", "priority", "status", "error",
                            "classification_confidence", "ocr_confidence"},
              rows |-> <<>>]
  /\ clock = 0
  /\ day = 0
  /\ min_confidence \in MinConfidences
  /\ delivered = 0
  /\ faults = 0
  /\ calls = <<>>
  /\ csv_written = <<>>
  /\ loop = [pc |-> "off"]
  /\ mail = [pc |-> "off"]

\* an external producer starts writing a file into the intake directory
Arrive(name, doc) ==
  /\ delivered < MaxArtifacts
  /\ <<name, doc>> \in Arrivals
  /\ ~ Exists(files, <<RAW_SCANS_DIR, name>>)
  /\ delivered' = delivered + 1
  /\ files' = [q \in DOMAIN files \cup {<<RAW_SCANS_DIR, name>>} |->
                 IF q = <<RAW_SCANS_DIR, name>>
                 THEN [id |-> delivered + 1, doc |-> doc, writing |-> TRUE]
                 ELSE files[q]]
  /\ UNCHANGED <<ocr_text, csv, store, clock, day, min_confidence, faults, calls,
                 csv_written, loop, mail>>

\* the producer closes the file
FinishWrite(name) ==
  /\ Exists(files, <<RAW_SCANS_DIR, name>>)
  /\ files[<<RAW_SCANS_DIR, name>>].writing
  /\ files' = [files EXCEPT ![<<RAW_SCANS_DIR, name>>].writing = FALSE]
  /\ UNCHANGED <<ocr_text, csv, store, clock, day, min_confidence, delivered, faults,
                 calls, csv_written, loop, mail>>

\* midnight: datetime.utcnow() moves to the next date
NextDay ==
  /\ day < MaxDay
  /\ day' = day + 1
  /\ UNCHANGED <<files, ocr_text, csv, store, clock, min_confidence, delivered,
                 faults, calls, csv_written, loop, mail>>

\* handle_file returns at "if not is_file_stable(path)": the size changed
\* between the two samples, which takes a producer still writing
HandleUnstable(name) ==
  /\ Exists(files, <<RAW_SCANS_DIR, name>>)
  /\ files[<<RAW_SCANS_DIR, name>>].writing
  /\ UNCHANGED vars

\* what calls keeps of a run r of handle_file on the file f named name
Summary(name, f, fault, r) ==
  [id |-> f.id, name |-> name, doc |-> f.doc, fault |-> fault,
   min_conf |-> min_confidence,
   branch |-> r.info.branch, stages |-> r.info.stages, status |-> r.info.status,
   exc |-> r.exc, escaped |-> r.escaped,
   csv |-> Statuses(r.logged), db |-> Statuses(r.stored),
   final_paths |-> [k \in DOMAIN (r.logged \o r.stored) |->
                      Get((r.logged \o r.stored)[k], "final_path")[2]],
   locs |-> {q \in DOMAIN r.w.files : r.w.files[q].id = f.id},
   class_conf |-> r.info.class_conf, dt_conf |-> r.info.dt_conf,
   ocr_conf |-> r.info.ocr_conf, combined |-> r.info.combined,
   text |-> r.info.text, metadata |-> r.info.record, triple |-> r.info.triple,
   dest |-> r.info.dest, dest_before |-> r.info.dest_before,
   dest_after |-> IF Exists(r.w.files, r.info.dest) THEN r.w.files[r.info.dest]
                  ELSE NoFile]

\* the state after a call that did r on the file f
Returns(name, f, fault, r) ==
  /\ files' = r.w.files
  /\ ocr_text' = r.w.ocr_text
  /\ csv' = r.w.csv
  /\ store' = r.w.store
  /\ clock' = r.w.clock
  /\ faults' = IF fault = "none" THEN faults ELSE faults + 1
  /\ calls' = Append(calls, Summary(name, f, fault, r))
  /\ csv_written' = csv_written \o r.logged
  /\ UNCHANGED <<day, min_confidence, delivered, mail>>

\* a call handle_file(data/incoming/name) that passes the stability check,
\* the environment injecting fault where the call meets it
HandleFile(name) ==
  /\ Exists(files, <<RAW_SCANS_DIR, name>>)
  /\ \E fault \in IF faults < MaxFaults
                   THEN {"none", "move", "csv", "db", "csv_err", "db_err"}
                   ELSE {"none"} :
       \E r \in {handle_file([files |-> files, ocr_text |-> ocr_text, csv |-> csv,
                               store |-> store, clock |-> clock],
                              name, fault, day, min_confidence)} :
          /\ fault = "none" \/ r.hit
          /\ Returns(name, files[<<RAW_SCANS_DIR, name>>], fault, r)
          /\ UNCHANGED loop

Names == {a[1] : a \in Arrivals}

Next ==
  \/ \E a \in Arrivals : Arrive(a[1], a[2])
  \/ \E name \in Names : FinishWrite(name)
  \/ NextDay
  \/ \E name \in Names : HandleUnstable(name)
  \/ \E name \in Names : HandleFile(name)

Spec == Init /\ [][Next]_vars

(***************************************************************************)
(* main_loop (src/worker_main.py): every interval it lists the intake      *)
(* directory and passes each file with an allowed extension to             *)
(* handle_file; one try statement encloses the whole for loop.  loop is    *)
(* its state: its position pc, the number of sweeps begun, the listing     *)
(* that iterdir gave to the current sweep, the part of it still pending,   *)
(* the entries the sweep passed to handle_file and the two sizes that      *)
(* is_file_stable sampled in the last call.                                *)
(***************************************************************************)

\* sweeps of main_loop in a behaviour
MaxSweeps == 2

LoopInit ==
  /\ files = <<>>
  /\ ocr_text = <<>>
  /\ csv = [header |-> <<>>, rows |-> <<>>]
  /\ store = [columns |-> {"id", "timestamp", "original_path", "final_path",
                            "route_tag", "priority", "status", "error",
                            "classification_confidence", "ocr_confidence"},
              rows |-> <<>>]
  /\ clock = 0
  /\ day = 0
  /\ min_confidence = DefaultMinConfidence
  /\ delivered = 0
  /\ faults = 0
  /\ calls = <<>>
  /\ csv_written = <<>>
  /\ loop = [pc |-> "sleep", sweeps |-> 0, listing |-> <<>>, pending |-> <<>>,
             handled |-> {}, samples |-> <<0, 0>>]
  /\ mail = [pc |-> "off"]

\* time.sleep(interval) is over: "for entry in RAW_SCANS_DIR.iterdir()"
\* begins, with the entries of the directory in the order the file system
\* gives them
SweepStart ==
  /\ loop.pc = "sleep" /\ loop.sweeps < MaxSweeps
  /\ LET entries == {q[2] : q \in {p \in DOMAIN files : p[1] = RAW_SCANS_DIR}}
     IN  \E listing \in [1..Cardinality(entries) -> entries] :
           /\ \A i, j \in DOMAIN listing : i # j => listing[i] # listing[j]
           /\ loop' = [pc |-> IF listing = <<>> THEN "sleep" ELSE "sweep",
                       sweeps |-> loop.sweeps + 1, listing |-> listing,
                       pending |-> listing, handled |-> {}, samples |-> loop.samples]
  /\ UNCHANGED <<files, ocr_text, csv, store, clock, day, min_confidence,
                 delivered, faults, calls, csv_written, mail>>

\* the sizes path.stat().st_size may give before and after the sleep of
\* is_file_stable, in blocks: a file its producer has closed has its full
\* size, a file still written may have grown in between
Samples(writing) == IF writing THEN {<<1, 1>>, <<1, 2>>, <<2, 2>>} ELSE {<<2, 2>>}

\* a stability check that passes every file
AlwaysStable(size1, size2) == TRUE

\* is_file_stable, on the two sizes it samples
is_file_stable(size1, size2) == size1 = size2

\* the loop after the entry at the head of pending: the next entry, or
\* time.sleep(interval) when there is none
Continue(entry, called) ==
  [loop EXCEPT !.pending = Tail(@),
               !.handled = IF called THEN @ \cup {entry} ELSE @,
               !.pc = IF Tail(loop.pending) = <<>> THEN "sleep" ELSE @]

\* "continue": the entry is no file or its extension is not allowed
SweepSkip ==
  /\ loop.pc = "sweep"
  /\ LET entry == Head(loop.pending)
     IN  /\ \/ ~ Exists(files, <<RAW_SCANS_DIR, entry>>)
            \/ Lower(Suffix(entry)) \notin AllowedExtensions
         /\ loop' = Continue(entry, FALSE)
  /\ UNCHANGED <<files, ocr_text, csv, store, clock, day, min_confidence,
                 delivered, faults, calls, csv_written, mail>>

\* handle_file(entry) returns at its stability check
SweepUnstable ==
  /\ loop.pc = "sweep"
  /\ LET entry == Head(loop.pending)
     IN  /\ Exists(files, <<RAW_SCANS_DIR, entry>>)
         /\ Lower(Suffix(entry)) \in AllowedExtensions
         /\ \E sizes \in Samples(files[<<RAW_SCANS_DIR, entry>>].writing) :
              /\ ~ is_file_stable(sizes[1], sizes[2])
              /\ loop' = [Continue(entry, TRUE) EXCEPT !.samples = sizes]
  /\ UNCHANGED <<files, ocr_text, csv, store, clock, day, min_confidence,
                 delivered, faults, calls, csv_written, mail>>

\* handle_file(entry) runs; an exception that leaves it is caught by the
\* except of main_loop, which is outside the for loop: the sweep is over
SweepHandle ==
  /\ loop.pc = "sweep"
  /\ LET entry == Head(loop.pending)
     IN  /\ Exists(files, <<RAW_SCANS_DIR, entry>>)
         /\ Lower(Suffix(entry)) \in AllowedExtensions
         /\ \E sizes \in Samples(files[<<RAW_SCANS_DIR, entry>>].writing) :
            \E fault \in IF faults < MaxFaults
                          THEN {"none", "move", "csv", "db", "csv_err", "db_err"}
                          ELSE {"none"} :
              \E r \in {handle_file([files |-> files, ocr_text |-> ocr_text,
                                      csv |-> csv, store |-> store, clock |-> clock],
                                     entry, fault, day, min_confidence)} :
                 /\ is_file_stable(sizes[1], sizes[2])
                 /\ fault = "none" \/ r.hit
                 /\ Returns(entry, files[<<RAW_SCANS_DIR, entry>>], fault, r)
                 /\ loop' = IF r.escaped
                            THEN [loop EXCEPT !.pc = "sleep",
                                              !.handled = @ \cup {entry},
                                              !.samples = sizes]
                            ELSE [Continue(entry, TRUE) EXCEPT !.samples = sizes]

LoopNext ==
  \/ \E a \in Arrivals : Arrive(a[1], a[2])
  \/ \E name \in Names : FinishWrite(name)
  \/ SweepStart
  \/ SweepSkip
  \/ SweepUnstable
  \/ SweepHandle

LoopSpec == LoopInit /\ [][LoopNext]_vars

(***************************************************************************)
(* The e-mail ingestion (src/email_ingestion.py): run_email_ingestion      *)
(* fetches the unseen messages, saves their attachments to the intake      *)
(* queue and then stamps, delivers and routes each saved attachment.       *)
(* mail is the state of one run: its position pc, the clock now            *)
(* (int(time.time())), the server side (inbox, and the flags seen; stored  *)
(* are the messages the run flagged with an explicit STORE), the           *)
(* directories intake, stamped and processed (path to file), the table     *)
(* routes and the local variables of the run.  writes, sends and trips are *)
(* history: the attachments persisted, the finished calls of               *)
(* send_to_worker and the QR codes read back by route_file.  The run has   *)
(* the configuration of run_email_ingestion when CAPTURE_TOUCH_OCR_CMD is  *)
(* not set: no vendor command.                                             *)
(***************************************************************************)

\* EmailIngestionConfig.max_retries
DefaultMaxRetries == 3

\* EmailIngestionConfig.backoff_seconds
BackoffSeconds == 3

\* the last second of the clock that passes by itself
MaxNow == 1

\* failed deliveries and failed writes in a run
MaxFailures == 3

\* what an attachment holds, by content number: the text OCR reads from it,
\* for an image its width in pixels (0 for a PDF), and the QR code the
\* document itself shows ("" if it shows none)
Scans ==
  << [text |-> <<"I","n","v","o","i","c","e"," ","7">>, width |-> 0, code |-> ""],
     [text |-> <<"P","a","y","m","e","n","t">>, width |-> 1000,
      code |-> "upi://pay?pa=acme"],
     [text |-> <<>>, width |-> 100, code |-> ""],
     [text |-> <<"m","e","m","o">>, width |-> 0, code |-> ""] >>

\* the messages a mailbox may hold; a part is [attachment, filename, bytes]:
\* its content disposition, its file name and its content number (0: the
\* payload is empty)
Messages ==
  << [subject |-> "Invoice March", sender |-> "ap@vendor.example",
      parts |-> << [attachment |-> FALSE, filename |-> <<>>, bytes |-> 0],
                   [attachment |-> TRUE,
                    filename |-> <<"i","n","v",".","p","d","f">>, bytes |-> 1] >>],
     [subject |-> "", sender |-> "scanner@office.example",
      parts |-> << [attachment |-> TRUE,
                    filename |-> <<"s","c","a","n",".","P","N","G">>, bytes |-> 2],
                   [attachment |-> TRUE,
                    filename |-> <<"s","c","a","n",".","P","N","G">>, bytes |-> 3] >>],
     [subject |-> "Fwd", sender |-> "client@firm.example",
      parts |-> << [attachment |-> TRUE,
                    filename |-> <<"m","e","m","o",".","t","x","t">>, bytes |-> 4],
                   [attachment |-> TRUE,
                    filename |-> <<"i","n","v",".","p","d","f">>, bytes |-> 0],
                   [attachment |-> TRUE,
                    filename |-> <<"i","n","v",".","p","d","f">>, bytes |-> 1] >>] >>

MailInit ==
  /\ files = <<>>
  /\ ocr_text = <<>>
  /\ csv = [header |-> <<>>, rows |-> <<>>]
  /\ store = [columns |-> {"id", "timestamp", "original_path", "final_path",
                            "route_tag", "priority", "status", "error",
                            "classification_confidence", "ocr_confidence"},
              rows |-> <<>>]
  /\ clock = 0
  /\ day = 0
  /\ min_confidence = DefaultMinConfidence
  /\ delivered = 0
  /\ faults = 0
  /\ calls = <<>>
  /\ csv_written = <<>>
  /\ loop = [pc |-> "off"]
  /\ \E a \in DOMAIN Messages : \E b \in a..Len(Messages) : \E retries \in {1, DefaultMaxRetries} :
       mail = [pc |-> "search", now |-> 0, max_retries |-> retries, failures |-> 0,
               inbox |-> <<Messages[a], Messages[b]>>, seen |-> {}, stored |-> {},
               todo |-> <<>>, cur |-> 0, parts |-> <<>>,
               intake |-> <<>>, stamped |-> <<>>, processed |-> <<>>, routes |-> <<>>,
               saved |-> <<>>, job |-> <<>>,
               writes |-> <<>>, sends |-> <<>>, trips |-> <<>>,
               earlier |-> 0, retried |-> {}, routed |-> {}]

\* the clock reaches the next second
SecondPasses ==
  /\ mail.pc \in {"fetch", "process"}
  /\ mail.now < MaxNow
  /\ mail' = [mail EXCEPT !.now = @ + 1]
  /\ UNCHANGED <<files, ocr_text, csv, store, clock, day, min_confidence,
                 delivered, faults, calls, csv_written, loop>>

\* fetch_attachments up to its loop: mail.search(None, "UNSEEN")
Search ==
  /\ mail.pc = "search"
  /\ \E status \in {"OK", "NO"} :
       LET unseen == SelectSeq(<<1, 2>>, LAMBDA m : m \notin mail.seen)
       IN  mail' = IF status = "OK" /\ unseen # <<>>
                   THEN [mail EXCEPT !.pc = "fetch", !.todo = unseen]
                   ELSE [mail EXCEPT !.pc = "process"]
  /\ UNCHANGED <<files, ocr_text, csv, store, clock, day, min_confidence,
                 delivered, faults, calls, csv_written, loop>>

\* mail.fetch(msg_id, "(RFC822)") and message_from_bytes for the next
\* message.  FETCH RFC822 is FETCH BODY[] (RFC 3501, 6.4.5): in the mailbox
\* that mail.select opened read-write the server sets \Seen on the message.
FetchMessage ==
  /\ mail.pc = "fetch" /\ mail.cur = 0 /\ mail.todo # <<>>
  /\ \E status \in {"OK", "NO"} :
       mail' = IF status = "OK"
               THEN [mail EXCEPT !.cur = Head(mail.todo),
                                 !.parts = mail.inbox[Head(mail.todo)].parts,
                                 !.seen = @ \cup {Head(mail.todo)}]
               ELSE [mail EXCEPT !.todo = Tail(@),
                                 !.pc = IF Tail(mail.todo) = <<>> THEN "process" ELSE @]
  /\ UNCHANGED <<files, ocr_text, csv, store, clock, day, min_confidence,
                 delivered, faults, calls, csv_written, loop>>

\* the parts _save_attachments_from_message does not skip
Accepted(part) ==
  /\ part.attachment
  /\ part.filename # <<>>
  /\ Lower(Suffix(part.filename)) \in {<<".","p","d","f">>, <<".","p","n","g">>,
                                        <<".","j","p","g">>, <<".","j","p","e","g">>}
  /\ part.bytes # 0

\* one turn of "for part in message.walk()" in
\* _save_attachments_from_message; the write of the file may raise, and
\* nothing catches that up to run_email_ingestion
SavePart ==
  /\ mail.pc = "fetch" /\ mail.cur # 0 /\ mail.parts # <<>>
  /\ LET part      == Head(mail.parts)
         safe_name == <<"e","m","a","i","l","_">> \o NatChars(mail.now) \o <<"_">>
                        \o part.filename
         dest_path == <<"data/intake_queue", safe_name>>
         record    == [source_email |-> mail.inbox[mail.cur].sender,
                       subject |-> mail.inbox[mail.cur].subject,
                       filename |-> part.filename, local_path |-> dest_path]
     IN  IF ~ Accepted(part)
         THEN mail' = [mail EXCEPT !.parts = Tail(@)]
         ELSE \/ mail' = [mail EXCEPT
                            !.parts = Tail(@),
                            !.intake = [q \in DOMAIN @ \cup {dest_path} |->
                                          IF q = dest_path THEN part.bytes ELSE @[q]],
                            !.saved = Append(@, record),
                            !.writes = Append(@, [msg |-> mail.cur,
                                                  part |-> Len(mail.inbox[mail.cur].parts)
                                                             - Len(mail.parts) + 1,
                                                  bytes |-> part.bytes,
                                                  path |-> dest_path])]
              \/ /\ mail.failures < MaxFailures
                 /\ mail' = [mail EXCEPT !.pc = "crashed", !.failures = @ + 1]
  /\ UNCHANGED <<files, ocr_text, csv, store, clock, day, min_confidence,
                 delivered, faults, calls, csv_written, loop>>

\* attachments.extend(...) returned: mail.store(msg_id, "+FLAGS", "(\\Seen)")
MarkSeen ==
  /\ mail.pc = "fetch" /\ mail.cur # 0 /\ mail.parts = <<>>
  /\ mail' = [mail EXCEPT !.seen = @ \cup {mail.cur}, !.stored = @ \cup {mail.cur},
                          !.cur = 0, !.todo = Tail(@),
                          !.pc = IF Tail(mail.todo) = <<>> THEN "process" ELSE @]
  /\ UNCHANGED <<files, ocr_text, csv, store, clock, day, min_confidence,
                 delivered, faults, calls, csv_written, loop>>


\* determine_route_hint
determine_route_hint(text) ==
  LET lower == Lower(text)
  IN  IF AnyKeywordIn(<<Kw_invoice, <<"b","i","l","l">>,
                        <<"p","a","y","a","b","l","e">>>>, lower) THEN "AP"
      ELSE IF AnyKeywordIn(<<Kw_receipt, <<"p","a","y","m","e","n","t">>,
                             <<"c","r","e","d","i","t">>>>, lower) THEN "AR"
      ELSE IF AnyKeywordIn(<<<<"c","o","n","t","r","a","c","t">>,
                             <<"c","l","i","e","n","t">>,
                             <<"e","n","g","a","g","e","m","e","n","t">>>>, lower)
      THEN "CLIENT"
      ELSE IF AnyKeywordIn(<<<<"p","o","l","i","c","y">>, <<"a","d","m","i","n">>,
                             <<"h","r">>>>, lower) THEN "ADMIN"
      ELSE "ARCHIVE"

\* PROCESSED_DIRS
PROCESSED_DIRS ==
  [AP |-> "data/processed/ap", AR |-> "data/processed/ar",
   CLIENT |-> "data/processed/client", ADMIN |-> "data/processed/admin",
   ARCHIVE |-> "data/processed/archive"]

\* what the worker endpoint may answer with a 2xx status: the decoded JSON
\* object as a sequence of <<key, value>>.  A naming_convention is a format
\* string: literal pieces and replacement fields.
Responses ==
  { <<>>,
    << <<"route", <<"a","p">>>> >>,
    << <<"route", <<"A","R">>>>,
       <<"final_filename", <<"d","o","c",".","p","n","g">>>> >>,
    << <<"route", <<"l","e","g","a","l">>>>, <<"final_filename", <<>>>>,
       <<"naming_convention", << <<"field", "vendor">>, <<"lit", <<".","p","d","f">>>> >>>>,
       <<"metadata", << <<"vendor", <<"a","c","m","e">>>> >>>> >>,
    << <<"naming_convention", << <<"field", "total">> >>>> >> }

\* key in dict
DictHas(dict, key) == \E i \in DOMAIN dict : dict[i][1] = key

\* dict.get(key, default)
DictGet(dict, key, default) ==
  IF DictHas(dict, key)
  THEN dict[CHOOSE i \in DOMAIN dict : dict[i][1] = key][2]
  ELSE default

\* template.format(**metadata): the pieces in order; raised when a
\* replacement field names no key of metadata (KeyError)
RECURSIVE FormatTemplate(_, _)
FormatTemplate(template, metadata) ==
  IF template = <<>> THEN [raised |-> FALSE, value |-> <<>>]
  ELSE LET piece == Head(template)
           rest  == FormatTemplate(Tail(template), metadata)
       IN  IF piece[1] = "field" /\ ~ DictHas(metadata, piece[2])
           THEN [raised |-> TRUE, value |-> <<>>]
           ELSE [raised |-> rest.raised,
                 value  |-> (IF piece[1] = "lit" THEN piece[2]
                             ELSE DictGet(metadata, piece[2], <<>>)) \o rest.value]

\* _apply_naming_convention
apply_naming_convention(response, fallback_name) ==
  LET formatted == FormatTemplate(DictGet(response, "naming_convention", <<>>),
                                  DictGet(response, "metadata", <<>>))
  IN  IF DictGet(response, "final_filename", <<>>) # <<>>
      THEN DictGet(response, "final_filename", <<>>)
      ELSE IF DictHas(response, "naming_convention") /\ ~ formatted.raised
      THEN formatted.value
      ELSE fallback_name

\* decode_qr_payload_from_path on a stamped file: "None" when no code is
\* read.  A PDF is rasterised at 200 dpi and its code read; an image is
\* opened by PIL, and its code is readable only if the pasted square has a
\* pixel for each module of a QR code (at least version 1, 21 modules, and
\* the border of 2 on each side that _qr_image asks for).  A file whose
\* content is not of the kind its suffix names raises, which is caught.
\* The result is codes[0]: file.first when the stamped code is readable
\* (the code pyzbar lists first), else the code of the document itself.
decode_qr_payload_from_path(name, file) ==
  IF (Lower(Suffix(name)) = <<".","p","d","f">>) # (file.kind = "pdf")
  THEN "None"
  ELSE IF file.kind = "pdf" \/ file.side >= 21 + 2 * 2 THEN file.first
  ELSE IF file.own # "" THEN file.own
  ELSE "None"

\* an extract_text whose vendor call is outside a try statement
ExtractUncaught(capture, ocr) ==
  IF capture.configured /\ capture.outcome # "exit"
  THEN [exc |-> "TimeoutExpired", text |-> <<>>]
  ELSE IF /\ capture.configured /\ capture.returncode = 0
          /\ Strip(capture.stdout) # <<>>
  THEN [exc |-> "", text |-> capture.stdout]
  ELSE [exc |-> "", text |-> IF ocr.outcome = "text" THEN ocr.text ELSE <<>>]

\* extract_text(path, capture_cmd).  capture is what the vendor command
\* does: whether one is configured, whether subprocess.run returns
\* ("exit"), raises ("raise") or times out ("timeout"), its return code and
\* its stdout.  ocr is what the local engine does with the file: it returns
\* text ("text"), raises ("raise") or pdf2image gives no page ("no_images").
\* Both try statements catch Exception, so exc, the exception that leaves
\* extract_text, is never set.
extract_text(capture, ocr) ==
  LET vendor == IF /\ capture.configured /\ capture.outcome = "exit"
                   /\ capture.returncode = 0 /\ Strip(capture.stdout) # <<>>
                THEN [returned |-> TRUE, text |-> capture.stdout]
                ELSE [returned |-> FALSE, text |-> <<>>]
      local  == IF ocr.outcome = "text"
                THEN [returned |-> TRUE, text |-> ocr.text]
                ELSE [returned |-> FALSE, text |-> <<>>]
  IN  IF vendor.returned THEN [exc |-> "", text |-> vendor.text]
      ELSE IF local.returned THEN [exc |-> "", text |-> local.text]
      ELSE [exc |-> "", text |-> <<>>]

\* the number in mail.writes of the attachment process_attachment is called
\* with: the run appended its records to saved as it wrote them, and takes
\* them from the head
WriteOfHead == Len(mail.writes) - Len(mail.saved) + 1

\* process_attachment up to the call of send_to_worker: extract_text,
\* build_metadata_hash (which opens the intake copy), determine_route_hint,
\* _qr_payload and stamp_with_qr (_stamp_pdf or _stamp_image, which pastes
\* the code resized to int(img.width * 0.2))
Stamp ==
  /\ mail.pc = "process" /\ mail.saved # <<>>
  /\ LET attachment == Head(mail.saved)
         path       == attachment.local_path
     IN  IF path \notin DOMAIN mail.intake
         THEN mail' = [mail EXCEPT !.pc = "crashed"]
         ELSE
           \E bytes \in {mail.intake[path]} :
           \E text \in {extract_text(
                          [configured |-> FALSE, outcome |-> "exit",
                           returncode |-> 0, stdout |-> <<>>],
                          [outcome |-> "text", text |-> Scans[bytes].text]).text} :
           \E metadata_hash \in {"sha256(" \o Join(text) \o ","
                                    \o Join(NatChars(bytes)) \o ")"} :
           \E route_hint \in {determine_route_hint(text)} :
           \E payload \in {JsonDumps(<<"dict",
                              << <<"doc_type", <<"str", IF attachment.subject # ""
                                                        THEN attachment.subject
                                                        ELSE "email-attachment">>>>,
                                 <<"metadata_hash", <<"str", metadata_hash>>>>,
                                 <<"route_hint", <<"str", route_hint>>>> >> >>)} :
           LET output        == <<"data/stamped",
                                  Stem(path[2]) \o <<"_","s","t","a","m","p","e","d">>
                                    \o Suffix(path[2])>>
               own           == Scans[bytes].code
               stamped_file  == IF Lower(Suffix(path[2])) = <<".","p","d","f">>
                                THEN [bytes |-> bytes, kind |-> "pdf", qr |-> payload,
                                      side |-> 0, own |-> own, first |-> payload]
                                ELSE [bytes |-> bytes, kind |-> "image", qr |-> payload,
                                      side |-> (Scans[bytes].width * 2) \div 10,
                                      own |-> own, first |-> payload]
           IN  \E first \in {payload} \cup ({own} \ {""}) :
               mail' = [mail EXCEPT
                          !.pc = "send",
                          !.stamped = [q \in DOMAIN @ \cup {output} |->
                                         IF q = output
                                         THEN [stamped_file EXCEPT !.first = first]
                                         ELSE @[q]],
                          !.job = [attachment |-> attachment, payload |-> payload,
                                   metadata_hash |-> metadata_hash,
                                   stamped_path |-> output, attempt |-> 1,
                                   sleeps |-> <<>>, accepted |-> FALSE],
                          !.retried = @ \cup ({WriteOfHead} \cap (1..mail.earlier))]
  /\ UNCHANGED <<files, ocr_text, csv, store, clock, day, min_confidence,
                 delivered, faults, calls, csv_written, loop>>

\* one turn of "for attempt in range(1, max_retries + 1)" in send_to_worker.
\* The attempt returns the decoded answer ("ok"); or the answer is 2xx and
\* response.json() raises ("bad_json"), the answer is not 2xx ("status"),
\* or requests.post raises ("error"): then it sleeps backoff_seconds * attempt.
\* job.accepted: the endpoint has answered an attempt of this call with 2xx.
SendAttempt ==
  /\ mail.pc = "send" /\ mail.job.attempt <= mail.max_retries
  /\ \/ \E response \in Responses :
          mail' = [mail EXCEPT
                     !.pc = "route",
                     !.job = [attachment |-> @.attachment, payload |-> @.payload,
                              metadata_hash |-> @.metadata_hash,
                              stamped_path |-> @.stamped_path, response |-> response],
                     !.sends = Append(@, [path |-> mail.job.stamped_path,
                                          filename |-> mail.job.attachment.filename,
                                          attempts |-> mail.job.attempt,
                                          sleeps |-> mail.job.sleeps,
                                          result |-> "returned"])]
     \/ /\ mail.failures < MaxFailures
        /\ \E outcome \in {"bad_json", "status", "error"} :
             mail' = [mail EXCEPT
                        !.failures = @ + 1,
                        !.now = @ + BackoffSeconds * mail.job.attempt,
                        !.job.attempt = @ + 1,
                        !.job.accepted = @ \/ outcome = "bad_json",
                        !.job.sleeps = Append(@, BackoffSeconds * mail.job.attempt)]
  /\ UNCHANGED <<files, ocr_text, csv, store, clock, day, min_confidence,
                 delivered, faults, calls, csv_written, loop>>

\* a send_to_worker that gives up after its first failed attempt
SendAbandon ==
  /\ mail.pc = "send" /\ mail.job.attempt > 1
  /\ mail' = [mail EXCEPT
                !.pc = "process", !.saved = Tail(@), !.job = <<>>,
                !.sends = Append(@, [path |-> mail.job.stamped_path,
                                     filename |-> mail.job.attachment.filename,
                                     attempts |-> mail.job.attempt - 1,
                                     sleeps |-> mail.job.sleeps,
                                     result |-> "raised"])]
  /\ UNCHANGED <<files, ocr_text, csv, store, clock, day, min_confidence,
                 delivered, faults, calls, csv_written, loop>>

\* a process_attachment that removes the intake copy when delivery failed
SendDiscard ==
  /\ mail.pc = "send" /\ mail.job.attempt > mail.max_retries
  /\ mail' = [mail EXCEPT
                !.pc = "process", !.saved = Tail(@), !.job = <<>>,
                !.intake = [q \in DOMAIN @ \ {mail.job.attachment.local_path} |-> @[q]],
                !.sends = Append(@, [path |-> mail.job.stamped_path,
                                     filename |-> mail.job.attachment.filename,
                                     attempts |-> mail.job.attempt - 1,
                                     sleeps |-> mail.job.sleeps,
                                     result |-> "raised"])]
  /\ UNCHANGED <<files, ocr_text, csv, store, clock, day, min_confidence,
                 delivered, faults, calls, csv_written, loop>>

\* the loop of send_to_worker is exhausted: it raises RuntimeError, and
\* process_attachment catches it, logs the failure and returns None
SendGiveUp ==
  /\ mail.pc = "send" /\ mail.job.attempt > mail.max_retries
  /\ mail' = [mail EXCEPT
                !.pc = "process", !.saved = Tail(@), !.job = <<>>,
                !.sends = Append(@, [path |-> mail.job.stamped_path,
                                     filename |-> mail.job.attachment.filename,
                                     attempts |-> mail.job.attempt - 1,
                                     sleeps |-> mail.job.sleeps,
                                     result |-> "raised"])]
  /\ UNCHANGED <<files, ocr_text, csv, store, clock, day, min_confidence,
                 delivered, faults, calls, csv_written, loop>>

\* a route_file that reads no code and raises for it
RouteStrict ==
  /\ mail.pc = "route"
  /\ mail' = [mail EXCEPT
                !.pc = "crashed",
                !.trips = Append(@, [path |-> mail.job.stamped_path,
                                     kind |-> mail.stamped[mail.job.stamped_path].kind,
                                     side |-> mail.stamped[mail.job.stamped_path].side,
                                     payload |-> mail.job.payload,
                                     qr_value |-> "None"])]
  /\ UNCHANGED <<files, ocr_text, csv, store, clock, day, min_confidence,
                 delivered, faults, calls, csv_written, loop>>

\* route_file and the rest of process_attachment: the stamped file is moved
\* to its route's directory, its code is read back, the route is recorded
\* and the intake copy is removed
RouteFile ==
  /\ mail.pc = "route"
  /\ \E job \in {mail.job} :
     \E given \in {DictGet(job.response, "route", <<"A","R","C","H","I","V","E">>)} :
     \E route \in {Join([i \in DOMAIN given |-> UpperChar(given[i])])} :
     \E target_dir \in {IF route \in DOMAIN PROCESSED_DIRS THEN PROCESSED_DIRS[route]
                         ELSE PROCESSED_DIRS["ARCHIVE"]} :
     \E final_name \in {apply_naming_convention(job.response, job.stamped_path[2])} :
     \E destination \in {IF <<target_dir, final_name>> \in DOMAIN mail.processed
                          THEN <<target_dir, Stem(final_name) \o <<"_">>
                                               \o NatChars(mail.now)
                                               \o Suffix(final_name)>>
                          ELSE <<target_dir, final_name>>} :
     \E file \in {mail.stamped[job.stamped_path]} :
     \E qr_value \in {decode_qr_payload_from_path(destination[2], file)} :
         mail' = [mail EXCEPT
                    !.pc = "process", !.saved = Tail(@), !.job = <<>>,
                    !.stamped = [q \in DOMAIN @ \ {job.stamped_path} |-> @[q]],
                    !.processed = [q \in DOMAIN @ \cup {destination} |->
                                     IF q = destination THEN file ELSE @[q]],
                    !.routes = Append(@, [original_filename |-> job.attachment.filename,
                                          final_filename |-> destination[2],
                                          route |-> route, location |-> target_dir,
                                          metadata_hash |-> job.metadata_hash,
                                          qr_payload |-> job.payload]),
                    !.intake = [q \in DOMAIN @ \ {job.attachment.local_path} |-> @[q]],
                    !.routed = @ \cup {WriteOfHead},
                    !.trips = Append(@, [path |-> destination, kind |-> file.kind,
                                         side |-> file.side, payload |-> job.payload,
                                         qr_value |-> qr_value])]
  /\ UNCHANGED <<files, ocr_text, csv, store, clock, day, min_confidence,
                 delivered, faults, calls, csv_written, loop>>

\* the steps of run_email_ingestion, and the clock
MailNext ==
  \/ Search
  \/ FetchMessage
  \/ SavePart
  \/ MarkSeen
  \/ Stamp
  \/ SendAttempt
  \/ SendGiveUp
  \/ RouteFile
  \/ SecondPasses

\* send_to_worker runs in the one thread of the program with nothing to
\* wait for but its own timeouts and sleeps: an attempt that is due is made
MailSpec ==
  MailInit /\ [][MailNext]_vars /\ WF_vars(SendAttempt) /\ WF_vars(SendGiveUp)

\* run_email_ingestion has returned, or an exception has ended it, and the
\* program is started again: a new EmailIngestor, a new list of attachments.
\* The mailbox, the directories and document_routes are as the run left
\* them.  earlier: the number of attachments runs before this one wrote.
NextRun ==
  /\ \/ mail.pc = "crashed"
     \/ mail.pc = "process" /\ mail.saved = <<>>
  /\ mail' = [mail EXCEPT !.pc = "search", !.todo = <<>>, !.cur = 0,
                          !.parts = <<>>, !.saved = <<>>, !.job = <<>>,
                          !.earlier = Len(mail.writes)]
  /\ UNCHANGED <<files, ocr_text, csv, store, clock, day, min_confidence,
                 delivered, faults, calls, csv_written, loop>>

\* the steps of the program started again and again
RunsNext ==
  \/ MailNext
  \/ NextRun

\* the program has one thread and every run is followed by another: a step
\* that can be taken is taken
RunsSpec ==
  MailInit /\ [][RunsNext]_vars /\ WF_vars(RunsNext)

(***************************************************************************)
(* Properties.  A call is an element of calls: a run of handle_file on an  *)
(* artifact that passed the stability check.                               *)
(***************************************************************************)

\* C1: every call leaves exactly one audit record in the tabular log and
\* exactly one in the structured store, on every path and also for records
\* whose metadata fields are lists.  Stated for the calls in which the
\* environment makes nothing fail.
C1_OneRecordPerSink ==
  \A i \in DOMAIN calls :
    calls[i].fault = "none" => Len(calls[i].csv) = 1 /\ Len(calls[i].db) = 1

\* C2: when a call returns, the artifact is in exactly one place, one of the
\* terminal directories (staging, needs-review, duplicate-hold, the personal
\* storage of the day), never in intake or temp.
C2_OneTerminalPlace ==
  \A i \in DOMAIN calls :
    /\ Cardinality(calls[i].locs) = 1
    /\ \A q \in calls[i].locs :
         q[1] \in {STAGING_DIR, NEEDS_REVIEW_DIR, DUPLICATE_HOLD_DIR}
                    \cup {ensure_personal_directory(PERSONAL_STORAGE_DIR, d) : d \in 0..MaxDay}

\* C3: when a step raises after the artifact was taken from intake (OCR
\* fails, for one), the artifact is relocated to needs-review and exactly
\* one record, of status ERROR, is written for it to each sink.  Stated for
\* the steps that come before the call has built a record.
C3_ErrorRelocates ==
  \A i \in DOMAIN calls :
    ( /\ calls[i].fault = "none" /\ calls[i].exc # ""
      /\ "temp" \in calls[i].stages /\ calls[i].status = "" )
      => /\ calls[i].locs = {<<NEEDS_REVIEW_DIR, calls[i].name>>}
         /\ calls[i].csv = <<"ERROR">>
         /\ calls[i].db = <<"ERROR">>

\* C4: the tabular log and the structured store agree for every artifact:
\* each has a record in both, and with the same status.  Stated for the
\* calls in which the environment makes nothing fail.
C4_SinksAgree ==
  \A i \in DOMAIN calls :
    calls[i].fault = "none"
      => /\ calls[i].csv # <<>>
         /\ calls[i].db # <<>>
         /\ Range(calls[i].csv) = Range(calls[i].db)

\* C5: the gate rejects a call exactly when min(max(classification
\* confidence, document_type confidence), OCR confidence) is strictly below
\* min_confidence; a rejected artifact is in needs-review, its record has
\* status NEEDS_REVIEW (the tabular log takes it unless its write fails) and
\* no filename was built, no duplicate check made and no final move done.
C5_GateRejectsBelowMinimum ==
  \A i \in DOMAIN calls :
    "gate" \in calls[i].stages
      => LET c == calls[i]
             combined == Min(Max(c.class_conf, c.dt_conf), c.ocr_conf)
         IN  /\ c.combined = combined
             /\ (c.status = "NEEDS_REVIEW") <=> (combined < c.min_conf)
             /\ c.status = "NEEDS_REVIEW"
                  => /\ c.locs = {<<NEEDS_REVIEW_DIR, c.name>>}
                     /\ c.stages \cap {"filename", "dupcheck", "move_final"} = {}
                     /\ c.fault # "csv" => c.csv[1] = "NEEDS_REVIEW"

\* C5 happens: one call is rejected below the threshold and another is
\* accepted with its combined confidence equal to the threshold.
C5_Witness ==
  \E i, j \in DOMAIN calls :
    /\ "gate" \in calls[i].stages /\ "gate" \in calls[j].stages
    /\ calls[i].combined < calls[i].min_conf /\ calls[i].status = "NEEDS_REVIEW"
    /\ calls[i].locs = {<<NEEDS_REVIEW_DIR, calls[i].name>>}
    /\ calls[j].combined = calls[j].min_conf /\ calls[j].status \in {"OK", "PERSONAL_STORED"}

\* C6: fusion is monotonic: of two calls under the same threshold, the one
\* whose three confidences are all at least the other's has at least the
\* other's combined confidence, and is accepted if the other is; and
\* raising one of the three confidences of a call, the others fixed, gives a
\* combined confidence that is no lower and rejects nothing that was accepted.
C6_FusionMonotonic ==
  /\ \A i, j \in DOMAIN calls :
       ( /\ "gate" \in calls[i].stages /\ "gate" \in calls[j].stages
         /\ calls[i].min_conf = calls[j].min_conf
         /\ calls[i].class_conf <= calls[j].class_conf
         /\ calls[i].dt_conf <= calls[j].dt_conf
         /\ calls[i].ocr_conf <= calls[j].ocr_conf )
         => /\ calls[i].combined <= calls[j].combined
            /\ calls[i].status # "NEEDS_REVIEW" => calls[j].status # "NEEDS_REVIEW"
  /\ \A i \in DOMAIN calls : \A d \in {1, 40, 9000} :
       "gate" \in calls[i].stages
         => LET c == calls[i]
                raised == {CombinedConfidence(Max(c.class_conf + d, c.dt_conf), c.ocr_conf),
                           CombinedConfidence(Max(c.class_conf, c.dt_conf + d), c.ocr_conf),
                           CombinedConfidence(Max(c.class_conf, c.dt_conf), c.ocr_conf + d)}
            IN  \A r \in raised :
                  /\ c.combined <= r
                  /\ ~ BelowMinimum(c.combined, c.min_conf) => ~ BelowMinimum(r, c.min_conf)

\* C6 happens: two calls differ in the OCR confidence alone, and the raise
\* turns a rejection into an acceptance.
C6_Witness ==
  \E i, j \in DOMAIN calls :
    /\ "gate" \in calls[i].stages /\ "gate" \in calls[j].stages
    /\ calls[i].class_conf = calls[j].class_conf
    /\ calls[i].dt_conf = calls[j].dt_conf
    /\ calls[i].ocr_conf < calls[j].ocr_conf
    /\ calls[i].combined < calls[j].combined
    /\ calls[i].status = "NEEDS_REVIEW" /\ calls[j].status # "NEEDS_REVIEW"

\* C8: a call whose final filename is already taken at its destination
\* moves its artifact to duplicate-hold with a DUPLICATE record, and the
\* file at the destination is the same after the call as before.
C8_DuplicateHeld ==
  \A i \in DOMAIN calls :
    ("dupcheck" \in calls[i].stages /\ calls[i].dest_before # NoFile)
      => /\ calls[i].status = "DUPLICATE"
         /\ calls[i].locs = {<<DUPLICATE_HOLD_DIR, calls[i].name>>}
         /\ calls[i].dest_after = calls[i].dest_before
         /\ calls[i].fault # "csv" => calls[i].csv[1] = "DUPLICATE"

\* C8 happens: a second artifact produced the final filename of a first one
\* that is at the destination.
C8_Witness ==
  \E i \in DOMAIN calls :
    /\ calls[i].status = "DUPLICATE"
    /\ calls[i].dest_before # NoFile
    /\ calls[i].dest_before.id # calls[i].id
    /\ calls[i].dest_after = calls[i].dest_before
    /\ calls[i].locs = {<<DUPLICATE_HOLD_DIR, calls[i].name>>}

\* C9: the header of the tabular log is the union of the field names of the
\* records written so far; row i holds what record i had in each of its
\* fields and the empty value in every other column.
C9_HeaderIsUnion ==
  /\ Range(csv.header) = UNION {Range(Keys(csv_written[i])) : i \in DOMAIN csv_written}
  /\ Len(csv.rows) = Len(csv_written)
  /\ \A i \in DOMAIN csv.rows :
       /\ DOMAIN csv.rows[i] = Range(csv.header)
       /\ \A h \in Range(csv.header) :
            csv.rows[i][h] =
              IF HasKey(csv_written[i], h)
              THEN CsvCell(Get(sanitize_record_values(csv_written[i]), h))
              ELSE ""

\* C9 happens: a later record brought columns the first row's record did
\* not have; the first row is empty there and keeps a value of its own.
C9_Witness ==
  /\ Len(csv.rows) >= 2
  /\ \E h \in Range(csv.header) :
       ~ HasKey(csv_written[1], h) /\ csv.rows[1][h] = ""
  /\ csv.rows[1]["status"] = "ERROR"
  /\ csv.rows[2]["status"] # "ERROR"

\* C10: for the text "Invoice #INV-10293 Total $482.10 due 2024-03-01" the
\* extracted metadata has document_type invoice, INV-10293 among the
\* identifiers, total 482.10 and 2024-03-01 among the dates, and the
\* classifier gives route tag AP with confidence at least 0.8.
C10_InvoiceExample ==
  \A i \in DOMAIN calls :
    ( /\ "classify" \in calls[i].stages
      /\ calls[i].text = "Invoice #INV-10293 Total $482.10 due 2024-03-01" )
      => /\ Get(calls[i].metadata, "document_type") = StrV("invoice")
         /\ StrV("INV-10293") \in Range(Get(calls[i].metadata, "identifiers")[2])
         /\ Get(calls[i].metadata, "total") = StrV("482.10")
         /\ StrV("2024-03-01") \in Range(Get(calls[i].metadata, "dates")[2])
         /\ calls[i].triple[1] = "AP"
         /\ calls[i].triple[3] >= 80

\* C10 happens: a call extracted and classified that text.
C10_Witness ==
  \E i \in DOMAIN calls :
    /\ "classify" \in calls[i].stages
    /\ calls[i].text = "Invoice #INV-10293 Total $482.10 due 2024-03-01"
    /\ calls[i].triple = <<"AP", "P2", 85>>

\* C11: when OCR succeeds with empty text, the artifact is routed to
\* needs-review with status NEEDS_REVIEW under every min_confidence above 0.
C11_EmptyTextNeedsReview ==
  \A i \in DOMAIN calls :
    ( /\ "gate" \in calls[i].stages
      /\ calls[i].text = "" /\ calls[i].min_conf > 0 )
      => /\ calls[i].status = "NEEDS_REVIEW"
         /\ calls[i].locs = {<<NEEDS_REVIEW_DIR, calls[i].name>>}

\* C12: a call on a stable file whose lower-cased extension is not in the
\* allow-list moves the file to needs-review under its own name, writes
\* exactly one record, of status UNRECOGNIZED_FORMAT, to each sink and runs
\* none of the later stages.  Stated for the calls in which the environment
\* makes nothing fail.
C12_UnrecognizedRejected ==
  \A i \in DOMAIN calls :
    ( /\ calls[i].fault = "none"
      /\ AllowedExtensions # {}
      /\ Lower(Suffix(calls[i].name)) \notin AllowedExtensions )
      => /\ calls[i].locs = {<<NEEDS_REVIEW_DIR, calls[i].name>>}
         /\ calls[i].csv = <<"UNRECOGNIZED_FORMAT">>
         /\ calls[i].db = <<"UNRECOGNIZED_FORMAT">>
         /\ calls[i].exc = ""
         /\ calls[i].stages = {"format"}

\* C12 happens: memo.docx was handled and is in needs-review, and the text
\* directory has nothing of it.
C12_Witness ==
  \E i \in DOMAIN calls :
    /\ calls[i].name = Name_memo /\ calls[i].fault = "none"
    /\ calls[i].status = "UNRECOGNIZED_FORMAT"
    /\ calls[i].locs = {<<NEEDS_REVIEW_DIR, Name_memo>>}
    /\ calls[i].csv = <<"UNRECOGNIZED_FORMAT">>
    /\ Stem(Name_memo) \o <<".", "t", "x", "t">> \notin DOMAIN ocr_text

(***************************************************************************)
(* One call of extract_text, for every behaviour of the vendor command and *)
(* of the local OCR engine: mail is the call, [pc, capture, ocr, result].  *)
(***************************************************************************)

\* what the vendor command may do
Captures ==
  [configured : BOOLEAN, outcome : {"exit", "raise", "timeout"}, returncode : {0, 1},
   stdout : {<<>>, <<" ", "\n">>, <<"R","e","c","e","i","p","t","\n">>}]

\* what the local OCR engine may do
LocalOcrs ==
  [outcome : {"text", "raise", "no_images"},
   text : {<<>>, <<"I","n","v","o","i","c","e"," ","7">>}]

ExtractInit ==
  /\ files = <<>>
  /\ ocr_text = <<>>
  /\ csv = [header |-> <<>>, rows |-> <<>>]
  /\ store = [columns |-> {"id", "timestamp", "original_path", "final_path",
                            "route_tag", "priority", "status", "error",
                            "classification_confidence", "ocr_confidence"},
              rows |-> <<>>]
  /\ clock = 0
  /\ day = 0
  /\ min_confidence = DefaultMinConfidence
  /\ delivered = 0
  /\ faults = 0
  /\ calls = <<>>
  /\ csv_written = <<>>
  /\ loop = [pc |-> "off"]
  /\ \E capture \in Captures : \E ocr \in LocalOcrs :
       mail = [pc |-> "extract", capture |-> capture, ocr |-> ocr,
               result |-> [exc |-> "", text |-> <<>>]]

\* the call returns, or an exception leaves it
ExtractText ==
  /\ mail.pc = "extract"
  /\ mail' = [mail EXCEPT !.pc = "done",
                          !.result = extract_text(mail.capture, mail.ocr)]
  /\ UNCHANGED <<files, ocr_text, csv, store, clock, day, min_confidence,
                 delivered, faults, calls, csv_written, loop>>

ExtractSpec == ExtractInit /\ [][ExtractText]_vars

\* C13: send_to_worker terminates; it makes at most max_retries attempts,
\* returns on the first attempt that succeeds, waits backoff_seconds * k
\* after the k-th failed attempt and raises when every attempt failed.
C13_SendTerminates ==
  /\ [](/\ mail.pc = "send" => mail.job.attempt <= mail.max_retries + 1
        /\ \A i \in DOMAIN mail.sends :
             LET s == mail.sends[i]
             IN  /\ s.attempts \in 1..mail.max_retries
                 /\ \A k \in DOMAIN s.sleeps : s.sleeps[k] = BackoffSeconds * k
                 /\ s.result = "returned" => Len(s.sleeps) = s.attempts - 1
                 /\ s.result = "raised"
                      => s.attempts = mail.max_retries /\ Len(s.sleeps) = mail.max_retries)
  /\ (mail.pc = "send") ~> (mail.pc # "send")

\* C13 happens: a delivery was given up after three failed attempts and
\* waits of 3, 6 and 9 seconds.
C13_Witness ==
  \E i \in DOMAIN mail.sends :
    /\ mail.sends[i].result = "raised"
    /\ mail.sends[i].attempts = DefaultMaxRetries
    /\ mail.sends[i].sleeps = <<BackoffSeconds, 2 * BackoffSeconds, 3 * BackoffSeconds>>

\* C14: a process_attachment whose delivery fails after all retries commits
\* nothing: from its start to its return no step changes the processed
\* directories, the table document_routes or the intake directory, and when
\* it returns the stamped file is still in the stamped directory and the
\* intake copy still in the intake directory.
C14_NoPartialCommit ==
  [][ ( /\ mail.pc \in {"process", "send"} /\ mail'.pc \in {"send", "process"} )
        => /\ mail'.processed = mail.processed
           /\ mail'.routes = mail.routes
           /\ mail'.intake = mail.intake
           /\ ( mail.pc = "send" /\ mail'.pc = "process" )
                => /\ mail'.sends[Len(mail'.sends)].result = "raised"
                   /\ mail.job.stamped_path \in DOMAIN mail'.stamped
                   /\ mail.job.attachment.local_path \in DOMAIN mail'.intake ]_vars

\* C14 happens: the only delivery of the run was given up; its stamped file
\* and its intake copy exist and nothing was routed.
C14_Witness ==
  /\ mail.pc = "process" /\ Len(mail.sends) = 1
  /\ mail.sends[1].result = "raised"
  /\ mail.sends[1].path \in DOMAIN mail.stamped
  /\ mail.intake # <<>> /\ mail.processed = <<>> /\ mail.routes = <<>>

\* C15: a delivery that failed after all retries is recorded as an error
\* outcome of its artifact: document_routes has a row of that attachment
\* whose route is ERROR or FORWARD_FAILED.
C15_FailureRecorded ==
  \A i \in DOMAIN mail.sends :
    mail.sends[i].result = "raised"
      => \E r \in DOMAIN mail.routes :
           /\ mail.routes[r].original_filename = mail.sends[i].filename
           /\ mail.routes[r].route \in {"ERROR", "FORWARD_FAILED"}

\* C16: a message is marked Seen only after all its accepted attachments
\* were written to the intake directory, and a message whose attachment
\* could not be written is not marked Seen.
C16_SeenAfterPersisted ==
  /\ \A m \in mail.seen :
       \A k \in DOMAIN mail.inbox[m].parts :
         Accepted(mail.inbox[m].parts[k])
           => \E i \in DOMAIN mail.writes :
                mail.writes[i].msg = m /\ mail.writes[i].part = k
  /\ mail.pc = "crashed" /\ mail.cur # 0 => mail.cur \notin mail.seen

\* C17: two attachments saved by _save_attachments_from_message never get
\* the same intake path, so no saved attachment is overwritten.
C17_DistinctIntakePaths ==
  \A i, j \in DOMAIN mail.writes :
    i # j => mail.writes[i].path # mail.writes[j].path

\* C18: decoding a file that stamp_with_qr wrote, under the name it was
\* written with, yields the payload it was stamped with.
C18_RoundTrip ==
  \A q \in DOMAIN mail.stamped :
    decode_qr_payload_from_path(q[2], mail.stamped[q]) = mail.stamped[q].qr

\* C19: when a sweep of main_loop is over, every entry of its listing that
\* is a file with an allowed extension was passed to handle_file, whatever
\* failed in the calls before it; and main_loop goes on to sleep.
C19_SweepCompletes ==
  loop.pc = "sleep"
    => \A k \in DOMAIN loop.listing :
         ( /\ Exists(files, <<RAW_SCANS_DIR, loop.listing[k]>>)
           /\ Lower(Suffix(loop.listing[k])) \in AllowedExtensions )
           => loop.listing[k] \in loop.handled

\* C20: in classify_text the last match wins: the priority is that of the
\* last priority list with a keyword in the text, and the route tag that of
\* the last keyword rule with a keyword in the text, whatever the document
\* type mapping had set.
C20_LastMatchWins ==
  \A i \in DOMAIN calls :
    calls[i].triple # <<>>
      => LET lower == Lower(perform_ocr(calls[i].name,
                                        Documents[calls[i].doc].pages).text)
             lists == {k \in DOMAIN ROUTING_RULES.priorities :
                         AnyKeywordIn(ROUTING_RULES.priorities[k].keywords, lower)}
             rules == {k \in DOMAIN ROUTING_RULES.keyword_routes :
                         AnyKeywordIn(ROUTING_RULES.keyword_routes[k].keywords, lower)}
         IN  /\ lists # {}
                  => calls[i].triple[2]
                       = Join(ROUTING_RULES.priorities[
                                CHOOSE k \in lists : \A j \in lists : j <= k].p)
             /\ rules # {}
                  => calls[i].triple[1]
                       = Join(ROUTING_RULES.keyword_routes[
                                CHOOSE k \in rules : \A j \in rules : j <= k].tag)

\* C20 happens: the text "Urgent invoice payment" was classified; it has
\* keywords of P1 and of P2 and of the rules AP and AR, its document type
\* invoice maps to AP, and the decision is AR and P2.
C20_Witness ==
  \E i \in DOMAIN calls :
    /\ calls[i].text = "Urgent invoice payment"
    /\ calls[i].triple[1] = "AR" /\ calls[i].triple[2] = "P2"

\* C21: classify_text only raises the confidence: it returns at least 0.2,
\* at least the document_type confidence when the document type has a
\* route mapping, at least 0.6 when a priority keyword is in the text and
\* at least 0.8 when a route keyword is; with no mapping and no keyword it
\* returns exactly (fallback tag, P3, 0.2).
C21_ConfidenceOnlyRaised ==
  \A i \in DOMAIN calls :
    calls[i].triple # <<>>
      => LET lower  == Lower(perform_ocr(calls[i].name,
                                         Documents[calls[i].doc].pages).text)
             lists  == {k \in DOMAIN ROUTING_RULES.priorities :
                          AnyKeywordIn(ROUTING_RULES.priorities[k].keywords, lower)}
             rules  == {k \in DOMAIN ROUTING_RULES.keyword_routes :
                          AnyKeywordIn(ROUTING_RULES.keyword_routes[k].keywords, lower)}
             mapped == \E k \in DOMAIN ROUTING_RULES.document_type_routes :
                          Join(ROUTING_RULES.document_type_routes[k].doc_type)
                            = Get(calls[i].metadata, "document_type")[2]
         IN  /\ calls[i].triple[3] >= 20
             /\ mapped => calls[i].triple[3]
                            >= Get(calls[i].metadata, "document_type_confidence")[2]
             /\ lists # {} => calls[i].triple[3] >= 60
             /\ rules # {} => calls[i].triple[3] >= 80
             /\ ( ~ mapped /\ lists = {} /\ rules = {} )
                  => calls[i].triple = <<Join(ROUTING_RULES.fallback_tag), "P3", 20>>

\* C21 happens: "hello" was classified with the seed decision, and the
\* invoice, whose document type maps to AP with confidence 0.85 and whose
\* text has a route keyword, with 0.85.
C21_Witness ==
  /\ \E i \in DOMAIN calls :
       calls[i].text = "hello" /\ calls[i].triple = <<"Misc", "P3", 20>>
  /\ \E i \in DOMAIN calls :
       /\ Get(calls[i].metadata, "document_type")[2] = "invoice"
       /\ calls[i].triple = <<"AP", "P2", 85>>

\* C22: a call of handle_file in which is_file_stable samples two different
\* sizes leaves the file where it is, writes no record and runs no OCR, so
\* the path is in the intake directory for the next sweep; a call in which
\* the two sizes are equal passes the check and goes on.
C22_UnstableUntouched ==
  [][ ( loop.pc = "sweep" /\ loop'.handled # loop.handled )
        => /\ loop'.samples[1] # loop'.samples[2]
                => /\ files' = files /\ ocr_text' = ocr_text
                   /\ csv' = csv /\ store' = store
                   /\ calls' = calls /\ csv_written' = csv_written
                   /\ <<RAW_SCANS_DIR, Head(loop.pending)>> \in DOMAIN files'
           /\ loop'.samples[1] = loop'.samples[2]
                => Len(calls') = Len(calls) + 1 ]_vars

\* C22 happens: the sweep passed scan.png to handle_file while its producer
\* was writing it, the two sizes differed, and the file is in the intake
\* directory with nothing recorded.
C22_Witness ==
  /\ loop.samples = <<1, 2>> /\ Name_scan \in loop.handled
  /\ Exists(files, <<RAW_SCANS_DIR, Name_scan>>)
  /\ calls = <<>> /\ csv.rows = <<>> /\ store.rows = <<>>

\* C23: when a sink write raises after handle_file has relocated the
\* artifact (to needs-review, duplicate-hold, staging or personal storage),
\* the artifact stays at that destination: the except handler does not
\* move it again.
C23_RelocationKept ==
  \A i \in DOMAIN calls :
    ( /\ calls[i].exc # ""
      /\ calls[i].branch \in {"unrecognized", "needs_review", "duplicate", "routed"} )
      => calls[i].locs
           = { CASE calls[i].branch = "routed" -> calls[i].dest
                 [] calls[i].branch = "duplicate" -> <<DUPLICATE_HOLD_DIR, calls[i].name>>
                 [] OTHER -> <<NEEDS_REVIEW_DIR, calls[i].name>> }

\* C23 happens: the CSV log could not be written after an artifact was
\* moved to staging, and the artifact is in staging.
C23_Witness ==
  \E i \in DOMAIN calls :
    /\ calls[i].fault = "csv" /\ calls[i].exc # ""
    /\ calls[i].branch = "routed" /\ calls[i].dest[1] = STAGING_DIR
    /\ calls[i].locs = {calls[i].dest}
    /\ calls[i].csv = <<"ERROR">>

\* C24: an artifact that passed the gate and met no name collision is in
\* the dated personal-storage directory with status PERSONAL_STORED if its
\* file name contains "owner" or "personal" or its document type contains
\* "personal", and in shared staging with status OK if not; a personal
\* artifact is never in shared staging.
C24_PersonalIffMarked ==
  \A i \in DOMAIN calls :
    calls[i].branch = "routed"
      => LET doc_type == Analysis[<<calls[i].name, calls[i].doc>>].metadata.document_type
             personal == \/ Contains(Lower(calls[i].name), <<"o","w","n","e","r">>)
                         \/ Contains(Lower(calls[i].name), Kw_personal)
                         \/ Contains(Lower(doc_type), Kw_personal)
             status   == IF personal THEN "PERSONAL_STORED" ELSE "OK"
         IN  /\ calls[i].status = status
             /\ calls[i].fault = "none" => calls[i].csv[1] = status
             /\ calls[i].locs = {calls[i].dest}
             /\ personal
                  => calls[i].dest[1] \in {ensure_personal_directory(PERSONAL_STORAGE_DIR, d) :
                                             d \in 0..MaxDay}
             /\ ~ personal => calls[i].dest[1] = STAGING_DIR

\* C24 happens: Owner-tax.PDF was stored in the personal directory of the
\* day and scan.png in shared staging.
C24_Witness ==
  /\ \E i \in DOMAIN calls :
       /\ calls[i].name = Name_owner /\ calls[i].branch = "routed"
       /\ calls[i].fault = "none" /\ calls[i].csv[1] = "PERSONAL_STORED"
       /\ calls[i].dest[1] = ensure_personal_directory(PERSONAL_STORAGE_DIR, 0)
       /\ calls[i].locs = {calls[i].dest}
  /\ \E i \in DOMAIN calls :
       /\ calls[i].name = Name_scan /\ calls[i].branch = "routed"
       /\ calls[i].fault = "none" /\ calls[i].csv[1] = "OK"
       /\ calls[i].dest[1] = STAGING_DIR

\* C25: when the code read back from the routed file is not the recorded
\* payload, or no code is read, route_file goes on: the file is at its
\* destination, document_routes gets its row with the original payload and
\* the name used, and process_attachment returns normally.
C25_MismatchAdvisory ==
  [][ ( /\ mail.pc = "route" /\ mail'.pc # "route"
        /\ mail'.trips[Len(mail'.trips)].qr_value # mail.job.payload )
        => LET trip == mail'.trips[Len(mail'.trips)]
           IN  /\ trip.path \in DOMAIN mail'.processed
               /\ mail'.processed[trip.path] = mail.stamped[mail.job.stamped_path]
               /\ Len(mail'.routes) = Len(mail.routes) + 1
               /\ mail'.routes[Len(mail'.routes)].qr_payload = mail.job.payload
               /\ mail'.routes[Len(mail'.routes)].final_filename = trip.path[2]
               /\ mail'.routes[Len(mail'.routes)].location = trip.path[1]
               /\ mail'.pc = "process" ]_vars

\* C25 happens: one routed file gave no code and another the code of the
\* document itself, and both have their rows.
C25_Witness ==
  /\ \E i \in DOMAIN mail.trips : mail.trips[i].qr_value = "None"
  /\ \E i \in DOMAIN mail.trips : mail.trips[i].qr_value = "upi://pay?pa=acme"
  /\ Len(mail.routes) = Len(mail.trips)

\* C26: extract_text never raises; it returns the output of the vendor
\* command when one is configured, exits with code 0 and prints output that
\* is not blank, and in every other case the text of the local OCR engine,
\* or the empty text if that engine fails as well.
C26_ExtractFallsBack ==
  mail.pc = "done"
    => LET accepted == /\ mail.capture.configured
                       /\ mail.capture.outcome = "exit"
                       /\ mail.capture.returncode = 0
                       /\ \E k \in DOMAIN mail.capture.stdout :
                            ~ IsSpace(mail.capture.stdout[k])
       IN  /\ mail.result.exc = ""
           /\ accepted => mail.result.text = mail.capture.stdout
           /\ ( ~ accepted /\ mail.ocr.outcome = "text" )
                => mail.result.text = mail.ocr.text
           /\ ( ~ accepted /\ mail.ocr.outcome # "text" )
                => mail.result.text = <<>>

\* C26 happens: the vendor command timed out, the local engine raised, and
\* extract_text returned the empty text.
C26_Witness ==
  /\ mail.pc = "done"
  /\ mail.capture.configured /\ mail.capture.outcome = "timeout"
  /\ mail.ocr.outcome = "raise"
  /\ mail.result = [exc |-> "", text |-> <<>>]

\* C27: the ocr_confidence that perform_ocr returns, and that the gate uses
\* as its cap, lies in [0, 1] (0 to 100 hundredths).
C27_OcrConfidenceInUnit ==
  \A i \in DOMAIN calls :
    "gate" \in calls[i].stages
      => calls[i].ocr_conf >= 0 /\ calls[i].ocr_conf <= 100

\* C28: no relocation by handle_file replaces a file that exists at its
\* target: every artifact a call has handled is still in the file system,
\* whatever artifacts of the same name were handled after it.
C28_NothingReplaced ==
  \A i \in DOMAIN calls :
    \E q \in DOMAIN files : files[q].id = calls[i].id

\* C29: in every record a call of handle_file writes to the CSV log or the
\* store, ERROR records included, final_path is the path at which the
\* artifact is when the call returns.
C29_FinalPathIsResidence ==
  \A i \in DOMAIN calls :
    \A k \in DOMAIN calls[i].final_paths :
      \E q \in calls[i].locs : PathStr(q) = calls[i].final_paths[k]

\* C30: once the endpoint has answered an attempt with a 2xx status,
\* send_to_worker submits the file no more, also when the body of that
\* answer is not JSON.
C30_AtMostOnce ==
  [][ ( mail.pc = "send" /\ mail.job.accepted )
        => /\ mail'.pc # "route"
           /\ mail'.pc = "send" => mail'.job.attempt = mail.job.attempt ]_vars

\* C32: route_file does not replace a file of a processed directory: no two
\* calls store their file under the same path, and each document_routes row
\* has the directory and the name its call stored the file under.
C32_NoOverwrite ==
  /\ \A i, j \in DOMAIN mail.trips :
        i # j => mail.trips[i].path # mail.trips[j].path
  /\ \A i \in DOMAIN mail.trips :
        /\ i \in DOMAIN mail.routes
        /\ mail.routes[i].location = mail.trips[i].path[1]
        /\ mail.routes[i].final_filename = mail.trips[i].path[2]

\* the most attachments a mailbox of two messages persists
MaxWrites == 4

\* C31: every attachment fetch_attachments has written to the intake queue
\* is in the end routed, or a later run of run_email_ingestion takes it up
\* again.
C31_EventuallyProcessed ==
  \A k \in 1..MaxWrites :
    (k \in DOMAIN mail.writes)
      ~> ( k \in mail.routed \/ k \in mail.retried )

====
